---- MODULE Spec2Model ----
(***************************************************************************)
(* A model of pervie: the operation controller (src/src/app.rs and the     *)
(* driving loop of src/src/main.rs) and the write pipeline                  *)
(* (src/src/core/flasher.rs).                                               *)
(*                                                                         *)
(* Strings are sequences of one-character strings, so that equality of a   *)
(* typed confirmation and a device path is equality of the characters.     *)
(* Indexes are 0-based as in the source; a sequence s is read at s[i + 1]. *)
(***************************************************************************)
EXTENDS Integers, Sequences, FiniteSets, TLC

(* ------------------------------ bounds -------------------------------- *)

\* Longest confirmation text the model lets the user type.
MaxInput == 2
\* Most Flashing(progress) messages one flash emits in the controller model.
MaxProgress == 1
\* Most bytes an image holds (the stream delivers at most this many).
MaxBytes == 5
\* Longest chunk the network stream yields at once.
MaxChunkLen == 3
\* Most empty chunks the network stream yields in one download.
MaxEmpty == 1
\* The size of an aligned block, in bytes of the model: the source's block is
\* 1 MiB, the model's a few bytes, with images and chunks scaled alike.
BlockBytes == 2
\* Most calls made to a Device Manager in one run of the model.
MaxCalls == 3
\* Longest size string given to parse_size.
MaxSizeLen == 4

(* ----------------------- controller: constants ------------------------ *)

\* isos: the compiled-in catalog of App::new (name and url of each entry).
isos == << [name |-> "Debian", url |-> "debian-amd64"],
           [name |-> "Debian", url |-> "debian-arm64"],
           [name |-> "Ubuntu", url |-> "ubuntu-amd64"],
           [name |-> "Ubuntu", url |-> "ubuntu-arm64"],
           [name |-> "Alpine", url |-> "alpine-x86_64"],
           [name |-> "Alpine", url |-> "alpine-aarch64"],
           [name |-> "Arch Linux", url |-> "arch-x86_64"] >>
\* fs_options: App::new takes FileSystemType::macos_options(), three entries.
fs_options == <<"Apfs", "ExFat", "Fat32">>

\* Characters a Char key can carry: the command letters of the handlers,
\* and the letters the device paths and their near misses are made of.
Chars == {"f", "i", "F", " ", "q", "u", "r"}

\* Two devices an enumeration can report: an unprotected one and the
\* protected system drive.  The first path is a prefix of the second.
DevQ == [path |-> <<"f">>, is_protected |-> FALSE]
DevP == [path |-> <<"f", "i">>, is_protected |-> TRUE]
\* What list_devices can return on success.
DeviceLists == {<<>>, <<DevQ>>, <<DevP>>, <<DevQ, DevP>>, <<DevP, DevQ>>}
\* DiskError kinds a Device Manager call is modelled to fail with.
DiskErrors == {"DeviceBusy", "CommandFailed"}
\* What Flasher::flash can return to the flash task (see FlashReturn below).
FlashErrors == {"Preflight", "OpenFailed", "GetFailed", "ChunkError",
                "WriterFailed", "WriterPanicked"}

Keys == {[code |-> c, ch |-> ""] : c \in {"Up", "Down", "Enter", "Esc", "Backspace", "Other"}}
          \cup {[code |-> "Char", ch |-> c] : c \in Chars}
CharKey(c) == [code |-> "Char", ch |-> c]

(* ------------------------- controller: state -------------------------- *)

\* cfg(target_os), the platform the program is built for: "linux" or "macos".
\* It is fixed throughout a run; pipeVars below holds it.
VARIABLE target_os

VARIABLES
  devices,             \* App.devices
  selected_index,      \* App.selected_index
  state,               \* App.state, an AppState
  input_buffer,        \* App.input_buffer
  selected_fs_index,   \* App.selected_fs_index
  selected_iso_index,  \* App.selected_iso_index
  should_quit,         \* App.should_quit
  inbox,               \* operation_tx/operation_rx: messages sent, not yet taken
  tasks,               \* the background tasks spawned by tokio::spawn, still running
  loop_pc              \* run_app: "recv" (before try_recv), "poll" (before event::poll), "exited"

appVars == <<devices, selected_index, state, input_buffer, selected_fs_index,
             selected_iso_index, should_quit, inbox, tasks, loop_pc>>

(* AppState values.  Every variant is the same record shape: tag, the usize  *)
(* of DeviceSelected, the String of the Confirm variants, the message of     *)
(* InProgress/Error/Success as <<kind, text1, text2>>, and the progress of   *)
(* Flashing.                                                                 *)
NoText == <<>>
NoMsg == <<"", NoText, NoText>>
AppState(tag, idx, path, msg, n) == [tag |-> tag, idx |-> idx, path |-> path, msg |-> msg, progress |-> n]
Idle == AppState("Idle", 0, NoText, NoMsg, 0)
DeviceSelected(i) == AppState("DeviceSelected", i, NoText, NoMsg, 0)
FormattingMenu == AppState("FormattingMenu", 0, NoText, NoMsg, 0)
IsoSelection == AppState("IsoSelection", 0, NoText, NoMsg, 0)
ConfirmDestructive(p) == AppState("ConfirmDestructive", 0, p, NoMsg, 0)
ConfirmFlash(p) == AppState("ConfirmFlash", 0, p, NoMsg, 0)
Flashing(n) == AppState("Flashing", 0, NoText, NoMsg, n)
InProgress(kind, a) == AppState("InProgress", 0, NoText, <<kind, a, NoText>>, 0)
Error(kind, a, b) == AppState("Error", 0, NoText, <<kind, a, b>>, 0)
Success(kind, a, b) == AppState("Success", 0, NoText, <<kind, a, b>>, 0)

\* App::selected_device: devices.get(selected_index)
HasSelectedDevice == selected_index < Len(devices)
selected_device == devices[selected_index + 1]
\* App::selected_fs / App::selected_iso
HasSelectedFs == selected_fs_index < Len(fs_options)
selected_fs == fs_options[selected_fs_index + 1]
HasSelectedIso == selected_iso_index < Len(isos)
selected_iso == isos[selected_iso_index + 1]

(* ---------------------- controller: the handlers ---------------------- *)

\* What disk_manager.list_devices() can return.
ListResults == {[ok |-> TRUE, list |-> l, err |-> ""] : l \in DeviceLists}
                 \cup {[ok |-> FALSE, list |-> <<>>, err |-> e] : e \in {"CommandFailed"}}

\* As refresh_devices, had it kept selected_index whatever the new list.
refresh_devices_Unclamped(r, st) ==
  IF r.ok
    THEN [devices |-> r.list, selected_index |-> selected_index, state |-> st]
    ELSE [devices |-> devices, selected_index |-> selected_index,
          state |-> Error("DiskError", <<r.err>>, NoText)]

\* App::refresh_devices, as the values it leaves in devices, selected_index
\* and state when list_devices returned r and the state before was st.
refresh_devices(r, st) ==
  IF r.ok
    THEN [devices |-> r.list,
          selected_index |-> IF selected_index >= Len(r.list) /\ r.list # <<>>
                               THEN Len(r.list) - 1 ELSE selected_index,
          state |-> st]
    ELSE [devices |-> devices, selected_index |-> selected_index,
          state |-> Error("DiskError", <<r.err>>, NoText)]

select_next ==
  /\ selected_index' = IF devices # <<>> THEN (selected_index + 1) % Len(devices)
                                         ELSE selected_index
  /\ UNCHANGED <<devices, state, input_buffer, selected_fs_index, selected_iso_index,
                 should_quit, inbox, tasks>>

select_previous ==
  /\ selected_index' = IF devices # <<>>
                         THEN (IF selected_index = 0 THEN Len(devices) - 1
                                                     ELSE selected_index - 1)
                         ELSE selected_index
  /\ UNCHANGED <<devices, state, input_buffer, selected_fs_index, selected_iso_index,
                 should_quit, inbox, tasks>>

select_next_fs ==
  /\ selected_fs_index' = IF fs_options # <<>>
                            THEN (selected_fs_index + 1) % Len(fs_options)
                            ELSE selected_fs_index
  /\ UNCHANGED <<devices, selected_index, state, input_buffer, selected_iso_index,
                 should_quit, inbox, tasks>>

select_previous_fs ==
  /\ selected_fs_index' = IF fs_options # <<>>
                            THEN (IF selected_fs_index = 0 THEN Len(fs_options) - 1
                                                           ELSE selected_fs_index - 1)
                            ELSE selected_fs_index
  /\ UNCHANGED <<devices, selected_index, state, input_buffer, selected_iso_index,
                 should_quit, inbox, tasks>>

select_next_iso ==
  /\ selected_iso_index' = IF isos # <<>> THEN (selected_iso_index + 1) % Len(isos)
                                          ELSE selected_iso_index
  /\ UNCHANGED <<devices, selected_index, state, input_buffer, selected_fs_index,
                 should_quit, inbox, tasks>>

select_previous_iso ==
  /\ selected_iso_index' = IF isos # <<>>
                             THEN (IF selected_iso_index = 0 THEN Len(isos) - 1
                                                             ELSE selected_iso_index - 1)
                             ELSE selected_iso_index
  /\ UNCHANGED <<devices, selected_index, state, input_buffer, selected_fs_index,
                 should_quit, inbox, tasks>>

enter_select_mode_Unguarded ==
  /\ state' = DeviceSelected(selected_index)
  /\ UNCHANGED <<devices, selected_index, input_buffer, selected_fs_index,
                 selected_iso_index, should_quit, inbox, tasks>>

enter_select_mode ==
  /\ state' = IF devices # <<>> THEN DeviceSelected(selected_index) ELSE state
  /\ UNCHANGED <<devices, selected_index, input_buffer, selected_fs_index,
                 selected_iso_index, should_quit, inbox, tasks>>

enter_format_menu ==
  /\ state' = FormattingMenu
  /\ selected_fs_index' = 0
  /\ input_buffer' = <<>>
  /\ UNCHANGED <<devices, selected_index, selected_iso_index, should_quit, inbox,
                 tasks>>

enter_iso_selection ==
  /\ state' = IsoSelection
  /\ selected_iso_index' = 0
  /\ UNCHANGED <<devices, selected_index, input_buffer, selected_fs_index, should_quit,
                 inbox, tasks>>

\* As flash_selected_iso, had it filled the confirmation with the device's path.
flash_selected_iso_Prefilled ==
  IF HasSelectedDevice
    THEN /\ state' = ConfirmFlash(selected_device.path)
         /\ input_buffer' = selected_device.path
         /\ UNCHANGED <<devices, selected_index, selected_fs_index, selected_iso_index,
                        should_quit, inbox, tasks>>
    ELSE UNCHANGED <<devices, selected_index, state, input_buffer, selected_fs_index,
                     selected_iso_index, should_quit, inbox, tasks>>

flash_selected_iso ==
  IF HasSelectedDevice
    THEN /\ state' = ConfirmFlash(selected_device.path)
         /\ input_buffer' = <<>>
         /\ UNCHANGED <<devices, selected_index, selected_fs_index, selected_iso_index,
                        should_quit, inbox, tasks>>
    ELSE UNCHANGED <<devices, selected_index, state, input_buffer, selected_fs_index,
                     selected_iso_index, should_quit, inbox, tasks>>

enter_confirm_mode ==
  IF HasSelectedDevice
    THEN /\ state' = ConfirmDestructive(selected_device.path)
         /\ input_buffer' = <<>>
         /\ UNCHANGED <<devices, selected_index, selected_fs_index, selected_iso_index,
                        should_quit, inbox, tasks>>
    ELSE UNCHANGED <<devices, selected_index, state, input_buffer, selected_fs_index,
                     selected_iso_index, should_quit, inbox, tasks>>

cancel ==
  /\ state' = Idle
  /\ input_buffer' = <<>>
  /\ UNCHANGED <<devices, selected_index, selected_fs_index, selected_iso_index,
                 should_quit, inbox, tasks>>

\* A background task as spawned: what it captured (path is its "path"), where
\* it stands, and the path argument of the call it has made last.
NoIso == [name |-> "", url |-> ""]
Task(kind, dev, fs, iso) ==
  [kind |-> kind, path |-> dev.path, is_protected |-> dev.is_protected, fs |-> fs,
   iso |-> iso, pc |-> "spawned", nprogress |-> 0, arg |-> NoText]

\* start_flashing: "if self.input_buffer != device.path" (negated)
FlashConfirmationMismatch == input_buffer # selected_device.path

start_flashing ==
  IF ~HasSelectedDevice
    THEN UNCHANGED <<devices, selected_index, state, input_buffer, selected_fs_index,
                     selected_iso_index, should_quit, inbox, tasks>>
  ELSE IF FlashConfirmationMismatch
    THEN /\ state' = Error("Confirmation mismatch", selected_device.path, input_buffer)
         /\ UNCHANGED <<devices, selected_index, input_buffer, selected_fs_index,
                        selected_iso_index, should_quit, inbox, tasks>>
  ELSE IF ~HasSelectedIso
    THEN UNCHANGED <<devices, selected_index, state, input_buffer, selected_fs_index,
                     selected_iso_index, should_quit, inbox, tasks>>
  ELSE /\ state' = InProgress("Starting flash of", <<selected_iso.name>>)
       /\ tasks' = Append(tasks, Task("flash", selected_device, "", selected_iso))
       /\ UNCHANGED <<devices, selected_index, input_buffer, selected_fs_index,
                      selected_iso_index, should_quit, inbox>>

\* unmount_selected: "if device.is_protected"
UnmountRefusedForDevice == selected_device.is_protected

\* As UnmountSpawnState, had unmount_selected spawned without leaving DeviceSelected.
UnmountSpawnState_StaysSelected == DeviceSelected(selected_index)

\* unmount_selected: the state it sets before tokio::spawn
UnmountSpawnState == InProgress("Unmounting", NoText)

unmount_selected ==
  IF ~HasSelectedDevice
    THEN UNCHANGED <<devices, selected_index, state, input_buffer, selected_fs_index,
                     selected_iso_index, should_quit, inbox, tasks>>
  ELSE IF UnmountRefusedForDevice
    THEN /\ state' = Error("Cannot unmount protected system drive", NoText, NoText)
         /\ UNCHANGED <<devices, selected_index, input_buffer, selected_fs_index,
                        selected_iso_index, should_quit, inbox, tasks>>
  ELSE /\ state' = UnmountSpawnState
       /\ tasks' = Append(tasks, Task("unmount", selected_device, "", NoIso))
       /\ UNCHANGED <<devices, selected_index, input_buffer, selected_fs_index,
                      selected_iso_index, should_quit, inbox>>

\* format_selected: "if device.is_protected"
FormatRefusedForDevice == selected_device.is_protected

\* As FormatConfirmationMismatch, had the comparison ignored the letters' case.
LowerCase(text) == [k \in 1..Len(text) |-> IF text[k] = "F" THEN "f" ELSE text[k]]
FormatConfirmationMismatch_IgnoringCase ==
  LowerCase(input_buffer) # LowerCase(selected_device.path)

\* format_selected: "if self.input_buffer != device.path"
FormatConfirmationMismatch == input_buffer # selected_device.path

format_selected ==
  IF ~HasSelectedDevice
    THEN UNCHANGED <<devices, selected_index, state, input_buffer, selected_fs_index,
                     selected_iso_index, should_quit, inbox, tasks>>
  ELSE IF FormatRefusedForDevice
    THEN /\ state' = Error("Cannot format protected system drive", NoText, NoText)
         /\ UNCHANGED <<devices, selected_index, input_buffer, selected_fs_index,
                        selected_iso_index, should_quit, inbox, tasks>>
  ELSE IF FormatConfirmationMismatch
    THEN /\ state' = Error("Confirmation mismatch", selected_device.path, input_buffer)
         /\ UNCHANGED <<devices, selected_index, input_buffer, selected_fs_index,
                        selected_iso_index, should_quit, inbox, tasks>>
  ELSE IF ~HasSelectedFs
    THEN UNCHANGED <<devices, selected_index, state, input_buffer, selected_fs_index,
                     selected_iso_index, should_quit, inbox, tasks>>
  ELSE /\ state' = InProgress("Formatting", selected_device.path)
       /\ tasks' = Append(tasks, Task("format", selected_device, selected_fs, NoIso))
       /\ UNCHANGED <<devices, selected_index, input_buffer, selected_fs_index,
                      selected_iso_index, should_quit, inbox>>

quit ==
  /\ should_quit' = TRUE
  /\ UNCHANGED <<devices, selected_index, state, input_buffer, selected_fs_index,
                 selected_iso_index, inbox, tasks>>

\* A key the handler's match sends to "_ => {}", or a state that blocks input.
ignore_key ==
  UNCHANGED <<devices, selected_index, state, input_buffer, selected_fs_index,
              selected_iso_index, should_quit, inbox, tasks>>

\* handle_idle_input; 'r' awaits refresh_devices, whose list_devices result is r.
handle_idle_input(key) ==
  CASE key = CharKey("q") -> quit
    [] key.code = "Up" -> select_previous
    [] key.code = "Down" -> select_next
    [] key.code = "Enter" -> enter_select_mode
    [] key = CharKey("r") ->
         \E r \in ListResults :
           LET after == refresh_devices(r, state) IN
             /\ devices' = after.devices
             /\ selected_index' = after.selected_index
             /\ state' = after.state
             /\ UNCHANGED <<input_buffer, selected_fs_index, selected_iso_index,
                            should_quit, inbox, tasks>>
    [] OTHER -> ignore_key

handle_selected_input(key) ==
  CASE key = CharKey("q") -> quit
    [] key.code = "Esc" -> cancel
    [] key.code = "Up" -> select_previous
    [] key.code = "Down" -> select_next
    [] key = CharKey("u") -> unmount_selected
    [] key = CharKey("f") -> enter_format_menu
    [] key = CharKey("i") -> enter_iso_selection
    [] OTHER -> ignore_key

handle_format_menu_input(key) ==
  CASE key = CharKey("q") -> quit
    [] key.code = "Esc" -> cancel
    [] key.code = "Up" -> select_previous_fs
    [] key.code = "Down" -> select_next_fs
    [] key.code = "Enter" -> enter_confirm_mode
    [] OTHER -> ignore_key

handle_iso_selection_input(key) ==
  CASE key = CharKey("q") -> quit
    [] key.code = "Esc" -> cancel
    [] key.code = "Up" -> select_previous_iso
    [] key.code = "Down" -> select_next_iso
    [] key.code = "Enter" -> flash_selected_iso
    [] OTHER -> ignore_key

\* As handle_confirm_input, had Up and Down moved the selection as elsewhere.
handle_confirm_input_Navigates(key) ==
  CASE key.code = "Esc" -> cancel
    [] key.code = "Up" -> select_previous
    [] key.code = "Down" -> select_next
    [] key.code = "Enter" ->
         IF state.tag = "ConfirmDestructive" THEN format_selected ELSE start_flashing
    [] key.code = "Backspace" ->
         /\ input_buffer' = IF input_buffer = <<>> THEN <<>>
                            ELSE SubSeq(input_buffer, 1, Len(input_buffer) - 1)
         /\ UNCHANGED <<devices, selected_index, state, selected_fs_index,
                        selected_iso_index, should_quit, inbox, tasks>>
    [] key.code = "Char" ->
         /\ Len(input_buffer) < MaxInput
         /\ input_buffer' = Append(input_buffer, key.ch)
         /\ UNCHANGED <<devices, selected_index, state, selected_fs_index,
                        selected_iso_index, should_quit, inbox, tasks>>
    [] OTHER -> ignore_key

\* handle_confirm_input.  A Char key is pushed whatever the letter; the model
\* stops accepting letters at MaxInput.
handle_confirm_input(key) ==
  CASE key.code = "Esc" -> cancel
    [] key.code = "Enter" ->
         IF state.tag = "ConfirmDestructive" THEN format_selected ELSE start_flashing
    [] key.code = "Backspace" ->
         /\ input_buffer' = IF input_buffer = <<>> THEN <<>>
                            ELSE SubSeq(input_buffer, 1, Len(input_buffer) - 1)
         /\ UNCHANGED <<devices, selected_index, state, selected_fs_index,
                        selected_iso_index, should_quit, inbox, tasks>>
    [] key.code = "Char" ->
         /\ Len(input_buffer) < MaxInput
         /\ input_buffer' = Append(input_buffer, key.ch)
         /\ UNCHANGED <<devices, selected_index, state, selected_fs_index,
                        selected_iso_index, should_quit, inbox, tasks>>
    [] OTHER -> ignore_key

handle_message_input_QuitOnly(key) ==
  IF key = CharKey("q") THEN quit ELSE ignore_key

handle_message_input(key) ==
  CASE key = CharKey("q") -> quit
    [] key.code \in {"Esc", "Enter"} -> cancel
    [] OTHER -> ignore_key

block_input_AsMessage(key) == handle_message_input(key)

\* run_app: the arm of Flashing and InProgress, "Block input during operations".
block_input(key) == ignore_key

\* run_app: "match &app.state" on a key press
dispatch_key(key) ==
  CASE state.tag = "Idle" -> handle_idle_input(key)
    [] state.tag = "DeviceSelected" -> handle_selected_input(key)
    [] state.tag = "IsoSelection" -> handle_iso_selection_input(key)
    [] state.tag = "FormattingMenu" -> handle_format_menu_input(key)
    [] state.tag \in {"ConfirmDestructive", "ConfirmFlash"} -> handle_confirm_input(key)
    [] state.tag \in {"Flashing", "InProgress"} -> block_input(key)
    [] state.tag \in {"Error", "Success"} -> handle_message_input(key)

(* ---------------------- controller: the driving loop ------------------ *)

\* As LoopRecv, had the loop drained the inbox and kept the newest message only.
LoopRecv_Newest ==
  /\ loop_pc = "recv"
  /\ loop_pc' = "poll"
  /\ IF inbox = <<>>
       THEN UNCHANGED <<devices, selected_index, state, inbox>>
       ELSE /\ inbox' = <<>>
            /\ state' = inbox[Len(inbox)]
            /\ UNCHANGED <<devices, selected_index>>
  /\ UNCHANGED <<input_buffer, selected_fs_index, selected_iso_index, should_quit,
                 tasks>>

\* run_app, first half of an iteration: operation_rx.try_recv() takes at most
\* one message; a Success is followed by refresh_devices.
LoopRecv ==
  /\ loop_pc = "recv"
  /\ loop_pc' = "poll"
  /\ IF inbox = <<>>
       THEN UNCHANGED <<devices, selected_index, state, inbox>>
       ELSE /\ inbox' = Tail(inbox)
            /\ IF Head(inbox).tag = "Success"
                 THEN \E r \in ListResults :
                        LET after == refresh_devices(r, Head(inbox)) IN
                          /\ devices' = after.devices
                          /\ selected_index' = after.selected_index
                          /\ state' = after.state
                 ELSE /\ state' = Head(inbox)
                      /\ UNCHANGED <<devices, selected_index>>
  /\ UNCHANGED <<input_buffer, selected_fs_index, selected_iso_index, should_quit,
                 tasks>>

\* run_app, second half: event::poll returned a key press, which is dispatched;
\* "if app.should_quit { return }".
KeyPress ==
  /\ loop_pc = "poll"
  /\ \E key \in Keys : dispatch_key(key)
  /\ loop_pc' = IF should_quit' THEN "exited" ELSE "recv"

\* run_app, second half: the poll timed out, or the event was no key press.
PollTimeout ==
  /\ loop_pc = "poll"
  /\ loop_pc' = "recv"
  /\ UNCHANGED <<devices, selected_index, state, input_buffer, selected_fs_index,
                 selected_iso_index, should_quit, inbox, tasks>>

(* --------------------- controller: background tasks ------------------- *)

\* The tasks run until the process ends with run_app's return.
Running(i) == i \in 1..Len(tasks) /\ loop_pc # "exited"
RemoveAt(seq, i) == SubSeq(seq, 1, i - 1) \o SubSeq(seq, i + 1, Len(seq))
\* Task i calls the Device Manager or the Flasher with the path arg.
Calls(i, pc, arg) == [tasks EXCEPT ![i].pc = pc, ![i].arg = arg]

\* The model's paths are short: their first letter, f, stands for the prefix
\* "/dev/disk" of a macOS device node, and r f for "/dev/rdisk".
DiskPrefix == <<"f">>
RawDiskPrefix == <<"r", "f">>

\* str::replace(from, to): every non-overlapping match of from, left to right.
RECURSIVE Replace(_, _, _)
Replace(str, from, to) ==
  IF Len(str) < Len(from) THEN str
  ELSE IF SubSeq(str, 1, Len(from)) = from
    THEN to \o Replace(SubSeq(str, Len(from) + 1, Len(str)), from, to)
    ELSE <<Head(str)>> \o Replace(Tail(str), from, to)

\* start_flashing's task: flash_path, under cfg(target_os = "macos") the path
\* with "/dev/disk" replaced by "/dev/rdisk", the path itself otherwise.
flash_path(path) ==
  IF target_os = "macos" THEN Replace(path, DiskPrefix, RawDiskPrefix) ELSE path
\* What a Device Manager call returns: Ok, or a DiskError.
DiskResults == {[ok |-> TRUE, err |-> ""]} \cup {[ok |-> FALSE, err |-> e] : e \in DiskErrors}
\* What flasher.flash returns: Ok, or an anyhow error.
FlashResults == {[ok |-> TRUE, err |-> ""]} \cup {[ok |-> FALSE, err |-> e] : e \in FlashErrors}

FlashFailedMessage_StillInProgress(e) == InProgress("Flashing", NoText)

\* start_flashing's task: the message sent when flasher.flash returned Err(e).
FlashFailedMessage(e) == Error("Flash failed", <<e>>, NoText)

EjectedMessage_ErrorOnFailure(r) ==
  IF r.ok THEN Success("Flash complete! Device ejected safely.", NoText, NoText)
          ELSE Error("Eject failed", <<r.err>>, NoText)

\* start_flashing's task: the message sent when disk_manager.eject returned r,
\* a Success either way, annotated when the eject failed.
EjectedMessage(r) ==
  IF r.ok THEN Success("Flash complete! Device ejected safely.", NoText, NoText)
          ELSE Success("Flash complete, but eject failed", <<r.err>>, NoText)

\* unmount_selected's task: disk_manager.unmount(&path) is called ...
UnmountTaskCall(i) ==
  /\ Running(i) /\ tasks[i].kind = "unmount" /\ tasks[i].pc = "spawned"
  /\ tasks' = Calls(i, "unmounting", tasks[i].path)
  /\ UNCHANGED <<devices, selected_index, state, input_buffer, selected_fs_index,
                 selected_iso_index, should_quit, inbox, loop_pc>>

\* As UnmountTaskReturn, had the task written its result into App.state itself.
UnmountTaskReturn_WritesState(i) ==
  /\ Running(i) /\ tasks[i].kind = "unmount" /\ tasks[i].pc = "unmounting"
  /\ \E r \in DiskResults :
       state' = IF r.ok THEN Success("Unmounted", tasks[i].path, NoText)
                        ELSE Error("DiskError", <<r.err>>, NoText)
  /\ tasks' = RemoveAt(tasks, i)
  /\ UNCHANGED <<devices, selected_index, inbox, input_buffer, selected_fs_index,
                 selected_iso_index, should_quit, loop_pc>>

\* ... and returns: the task sends its one message and ends.
UnmountTaskReturn(i) ==
  /\ Running(i) /\ tasks[i].kind = "unmount" /\ tasks[i].pc = "unmounting"
  /\ \E r \in DiskResults :
       inbox' = Append(inbox, IF r.ok THEN Success("Unmounted", tasks[i].path, NoText)
                                      ELSE Error("DiskError", <<r.err>>, NoText))
  /\ tasks' = RemoveAt(tasks, i)
  /\ UNCHANGED <<devices, selected_index, state, input_buffer, selected_fs_index,
                 selected_iso_index, should_quit, loop_pc>>

\* format_selected's task: disk_manager.format(&path, fs_type, "UNTITLED") is called ...
FormatTaskCall(i) ==
  /\ Running(i) /\ tasks[i].kind = "format" /\ tasks[i].pc = "spawned"
  /\ tasks' = Calls(i, "formatting", tasks[i].path)
  /\ UNCHANGED <<devices, selected_index, state, input_buffer, selected_fs_index,
                 selected_iso_index, should_quit, inbox, loop_pc>>

\* ... and returns.
FormatTaskReturn(i) ==
  /\ Running(i) /\ tasks[i].kind = "format" /\ tasks[i].pc = "formatting"
  /\ \E r \in DiskResults :
       inbox' = Append(inbox, IF r.ok THEN Success("Formatted", tasks[i].path, <<tasks[i].fs>>)
                                      ELSE Error("DiskError", <<r.err>>, NoText))
  /\ tasks' = RemoveAt(tasks, i)
  /\ UNCHANGED <<devices, selected_index, state, input_buffer, selected_fs_index,
                 selected_iso_index, should_quit, loop_pc>>

\* start_flashing's task, step 1: announces and calls disk_manager.unmount(&path).
FlashTaskUnmount(i) ==
  /\ Running(i) /\ tasks[i].kind = "flash" /\ tasks[i].pc = "spawned"
  /\ inbox' = Append(inbox, InProgress("Unmounting", tasks[i].path))
  /\ tasks' = Calls(i, "unmounting", tasks[i].path)
  /\ UNCHANGED <<devices, selected_index, state, input_buffer, selected_fs_index,
                 selected_iso_index, should_quit, loop_pc>>

\* As FlashTaskUnmounted, had the task gone on to flash after a failed unmount.
FlashTaskUnmounted_FlashesAnyway(i) ==
  /\ Running(i) /\ tasks[i].kind = "flash" /\ tasks[i].pc = "unmounting"
  /\ \E r \in DiskResults :
       inbox' = Append(inbox, IF r.ok THEN InProgress("Flashing", <<tasks[i].iso.name>>)
                                      ELSE Error("Failed to unmount", <<r.err>>, NoText))
  /\ tasks' = Calls(i, "flashing", flash_path(tasks[i].path))
  /\ UNCHANGED <<devices, selected_index, state, input_buffer, selected_fs_index,
                 selected_iso_index, should_quit, loop_pc>>

\* Steps 2 and 3: the unmount returned; on Ok the task announces the flash and
\* calls flasher.flash, on Err it sends the Error and ends.
FlashTaskUnmounted(i) ==
  /\ Running(i) /\ tasks[i].kind = "flash" /\ tasks[i].pc = "unmounting"
  /\ \E r \in DiskResults :
       IF r.ok
         THEN /\ inbox' = Append(inbox, InProgress("Flashing", <<tasks[i].iso.name>>))
              /\ tasks' = Calls(i, "flashing", flash_path(tasks[i].path))
         ELSE /\ inbox' = Append(inbox, Error("Failed to unmount", <<r.err>>, NoText))
              /\ tasks' = RemoveAt(tasks, i)
  /\ UNCHANGED <<devices, selected_index, state, input_buffer, selected_fs_index,
                 selected_iso_index, should_quit, loop_pc>>

\* Inside flasher.flash: a Flashing(progress) message on the task's clone of tx.
FlashTaskProgress(i) ==
  /\ Running(i) /\ tasks[i].kind = "flash" /\ tasks[i].pc = "flashing"
  /\ tasks[i].nprogress < MaxProgress
  /\ inbox' = Append(inbox, Flashing(tasks[i].nprogress + 1))
  /\ tasks' = [tasks EXCEPT ![i].nprogress = @ + 1]
  /\ UNCHANGED <<devices, selected_index, state, input_buffer, selected_fs_index,
                 selected_iso_index, should_quit, loop_pc>>

\* As FlashTaskFlashed, had the task reported the Success before the eject.
FlashTaskFlashed_SuccessBeforeEject(i) ==
  /\ Running(i) /\ tasks[i].kind = "flash" /\ tasks[i].pc = "flashing"
  /\ \E r \in FlashResults :
       IF r.ok
         THEN /\ inbox' = Append(inbox, Success("Flash complete!", NoText, NoText))
              /\ tasks' = Calls(i, "ejecting", tasks[i].path)
         ELSE /\ inbox' = Append(inbox, FlashFailedMessage(r.err))
              /\ tasks' = RemoveAt(tasks, i)
  /\ UNCHANGED <<devices, selected_index, state, input_buffer, selected_fs_index,
                 selected_iso_index, should_quit, loop_pc>>

\* Step 4: flasher.flash returned; on Ok the task announces and calls
\* disk_manager.eject, on Err it sends the Error and ends.
FlashTaskFlashed(i) ==
  /\ Running(i) /\ tasks[i].kind = "flash" /\ tasks[i].pc = "flashing"
  /\ \E r \in FlashResults :
       IF r.ok
         THEN /\ inbox' = Append(inbox, InProgress("Ejecting device", NoText))
              /\ tasks' = Calls(i, "ejecting", tasks[i].path)
         ELSE /\ inbox' = Append(inbox, FlashFailedMessage(r.err))
              /\ tasks' = RemoveAt(tasks, i)
  /\ UNCHANGED <<devices, selected_index, state, input_buffer, selected_fs_index,
                 selected_iso_index, should_quit, loop_pc>>

\* The eject returned: a Success either way, annotated when the eject failed.
FlashTaskEjected(i) ==
  /\ Running(i) /\ tasks[i].kind = "flash" /\ tasks[i].pc = "ejecting"
  /\ \E r \in DiskResults : inbox' = Append(inbox, EjectedMessage(r))
  /\ tasks' = RemoveAt(tasks, i)
  /\ UNCHANGED <<devices, selected_index, state, input_buffer, selected_fs_index,
                 selected_iso_index, should_quit, loop_pc>>

TaskStep ==
  \E i \in 1..Len(tasks) :
    \/ UnmountTaskCall(i)
    \/ UnmountTaskReturn(i)
    \/ FormatTaskCall(i)
    \/ FormatTaskReturn(i)
    \/ FlashTaskUnmount(i)
    \/ FlashTaskUnmounted(i)
    \/ FlashTaskProgress(i)
    \/ FlashTaskFlashed(i)
    \/ FlashTaskEjected(i)

(* ======================= the write pipeline ============================ *)
(* Flasher::flash: the producer (the async body of flash) and the writer   *)
(* thread, joined by a bounded channel.  The image is the byte sequence    *)
(* 1, 2, ..., image, so that a lost, repeated or misplaced byte shows.     *)

\* const CHANNEL_BOUND: usize = 4
CHANNEL_BOUND == 4
\* const WRITE_BUFFER_SIZE: usize = 1 * 1024 * 1024, in the model's scale
WRITE_BUFFER_SIZE == BlockBytes

VARIABLES
  image,            \* number of bytes the GET's body stream delivers if it runs to its end
  fpc,              \* where flash() stands
  head,             \* the pre-flight HEAD response flash() got ("none" before)
  total_size,       \* total_size, from the content-length header
  open_attempts,    \* how many times the device was opened (or tried to be)
  get_sent,         \* whether the GET was issued
  rd,               \* bytes read from the stream so far
  chunk,            \* the chunk in the producer's hands, being sent
  empties,          \* empty chunks the stream has yielded
  queue,            \* the sync_channel's buffer
  tx_open,          \* data_tx not dropped yet
  rx_open,          \* data_rx not dropped yet
  wpc,              \* where the writer thread stands
  buffer,           \* the writer's buffer
  written,          \* the writer's _written: the device offset of its next write
  writes,           \* history: the write_all calls issued on the device, in order
  syncs,            \* history: the sync_all calls issued on the device, each with its
                    \* outcome and the number of write_all calls issued before it
  file,             \* the device File: "unopened", "open", "closed"
  wres,             \* what the writer thread ended with
  fres,             \* what flash() returned
  via,              \* which return of flash() was taken
  bytes_processed,  \* the producer's bytes_processed
  progress,         \* history: bytes_written of the Flashing(progress) messages sent
  late_ops          \* history: device writes and syncs issued after flash() returned

pipeVars == <<target_os, image, fpc, head, total_size, open_attempts, get_sent, rd, chunk,
              empties, queue, tx_open, rx_open, wpc, buffer, written, writes, syncs, file,
              wres, fres, via, bytes_processed, progress, late_ops>>

(* The Device Managers (src/src/platform): the state of one manager, of    *)
(* the device it is called on, and of the calls made to it; and the inputs *)
(* and results of the Linux enumeration and of parse_size.                 *)
VARIABLES
  platform,         \* cfg(target_os) of get_disk_manager: "linux" or "macos"
  mpc,              \* where the manager call stands: "idle", "entered", "tool", "returned"
  call,             \* the call being served: its operation and its fs_type
  has_privileges,       \* what has_privileges() returns during this call
  invoked,          \* history: the native tools this call has run, with their format argument
  tool_exit,        \* history: how the native tool of this call exited
  mres,             \* what the call returned
  prev,             \* the operation and result of the call before this one
  ncalls,           \* calls made so far
  mounted,          \* the device has a mounted volume
  device_fs,        \* the filesystem the device carries
  lsblk,            \* the blockdevices of lsblk's output and findmnt's output, as parsed
  listed,           \* what parse_lsblk_output returned
  size_str,         \* the argument of parse_size
  size_bytes        \* what parse_size returned

mgrVars == <<platform, mpc, call, has_privileges, invoked, tool_exit, mres, prev, ncalls, mounted,
             device_fs, lsblk, listed, size_str, size_bytes>>

vars == <<appVars, pipeVars, mgrVars>>

\* Result values: of the writer thread (JoinHandle) and of flash().
NoResult == [kind |-> "none", msg |-> <<>>]
Ok == [kind |-> "ok", msg |-> <<>>]
Err(msg) == [kind |-> "err", msg |-> msg]
Panicked == [kind |-> "panic", msg |-> <<>>]

\* The bytes a..b of the image.
Bytes(a, b) == [k \in 1..(b - a + 1) |-> a + k - 1]

Min(a, b) == IF a < b THEN a ELSE b

\* As HeadAccepted, had the status test been left out.
HeadAccepted_AnyStatus(resp) == resp \in {"ok", "not_success"}

\* The pre-flight: "status().is_success()" and a parseable content-length.
HeadResponses == {"send_error", "not_success", "no_length", "ok"}
HeadAccepted(resp) == resp = "ok"
HeadError(resp) ==
  CASE resp = "send_error" -> Err(<<"HEAD request failed">>)
    [] resp = "not_success" -> Err(<<"Failed to access URL">>)
    [] resp = "no_length" -> Err(<<"Could not retrieve content length from URL">>)

\* 1. Pre-flight check
FlashHead ==
  /\ fpc = "head"
  /\ \E resp \in HeadResponses :
       /\ head' = resp
       /\ IF HeadAccepted(resp)
            THEN /\ \E n \in {image - 1, image, image + 1} : n >= 0 /\ total_size' = n
                 /\ fpc' = "open"
                 /\ UNCHANGED <<fres, via>>
            ELSE /\ fres' = HeadError(resp)
                 /\ via' = "head"
                 /\ fpc' = "returned"
                 /\ UNCHANGED total_size
  /\ UNCHANGED <<target_os, image, open_attempts, get_sent, rd, chunk, empties, queue,
                 tx_open, rx_open, wpc, buffer, written, writes, syncs, file, wres,
                 bytes_processed, progress, late_ops>>

\* 2. Open device
FlashOpen ==
  /\ fpc = "open"
  /\ open_attempts' = open_attempts + 1
  /\ \E opened \in BOOLEAN :
       IF opened
         THEN file' = "open" /\ fpc' = "spawn" /\ UNCHANGED <<fres, via>>
         ELSE /\ fres' = Err(<<"Failed to open device">>)
              /\ via' = "open"
              /\ fpc' = "returned"
              /\ UNCHANGED file
  /\ UNCHANGED <<target_os, image, head, total_size, get_sent, rd, chunk, empties, queue,
                 tx_open, rx_open, wpc, buffer, written, writes, syncs, wres,
                 bytes_processed, progress, late_ops>>

\* 3. and 4. sync_channel(CHANNEL_BOUND) and thread::spawn of the writer
FlashSpawnWriter ==
  /\ fpc = "spawn"
  /\ tx_open' = TRUE /\ rx_open' = TRUE
  /\ wpc' = "recv"
  /\ fpc' = "get"
  /\ UNCHANGED <<target_os, image, head, total_size, open_attempts, get_sent, rd, chunk,
                 empties, queue, buffer, written, writes, syncs, file, wres, fres, via,
                 bytes_processed, progress, late_ops>>

\* 5. "self.client.get(&url).send().await?": on Err flash() returns at once;
\* its locals are dropped, data_tx among them, and the writer is not joined.
FlashGet ==
  /\ fpc = "get"
  /\ get_sent' = TRUE
  /\ \E sent \in BOOLEAN :
       IF sent
         THEN fpc' = "next" /\ UNCHANGED <<fres, via, tx_open>>
         ELSE /\ fres' = Err(<<"GET request failed">>)
              /\ via' = "get"
              /\ tx_open' = FALSE
              /\ fpc' = "returned"
  /\ UNCHANGED <<target_os, image, head, total_size, open_attempts, rd, chunk, empties,
                 queue, rx_open, wpc, buffer, written, writes, syncs, file, wres,
                 bytes_processed, progress, late_ops>>

\* "stream.next().await": the stream ends, fails, or yields a chunk.  At the end
\* the producer drops data_tx and goes to join the writer; on a failed item
\* ("item.context(..)?") flash() returns at once, the writer not joined.
StreamNext ==
  /\ fpc = "next"
  /\ \/ /\ rd = image
        /\ tx_open' = FALSE
        /\ fpc' = "join"
        /\ UNCHANGED <<rd, chunk, empties, fres, via>>
     \/ /\ fres' = Err(<<"Error downloading chunk">>)
        /\ via' = "chunk"
        /\ tx_open' = FALSE
        /\ fpc' = "returned"
        /\ UNCHANGED <<rd, chunk, empties>>
     \/ \E n \in 0..Min(MaxChunkLen, image - rd) :
          /\ n = 0 => empties < MaxEmpty
          /\ chunk' = Bytes(rd + 1, rd + n)
          /\ rd' = rd + n
          /\ empties' = IF n = 0 THEN empties + 1 ELSE empties
          /\ fpc' = "send"
          /\ UNCHANGED <<tx_open, fres, via>>
  /\ UNCHANGED <<target_os, image, head, total_size, open_attempts, get_sent, queue,
                 rx_open, wpc, buffer, written, writes, syncs, file, wres,
                 bytes_processed, progress, late_ops>>

\* As SendCanProceed, had the channel been unbounded.
SendCanProceed_Unbounded == rx_open

\* SyncSender::send completes when the receiver lives and the buffer has room.
SendCanProceed == rx_open /\ Len(queue) < CHANNEL_BOUND
\* As SendFails, had a send on a channel without receiver kept waiting.
SendFails_Never == FALSE

\* SyncSender::send fails when the receiver was dropped.
SendFails == ~rx_open

BytesProcessedAfterChunk_Overwritten == Len(chunk)

\* "bytes_processed += chunk_len as u64"
BytesProcessedAfterChunk == bytes_processed + Len(chunk)

\* As ProducerSend, had the message been built before the chunk was counted.
ProducerSend_EmitsBeforeCount ==
  /\ fpc = "send"
  /\ SendCanProceed
  /\ queue' = Append(queue, chunk)
  /\ bytes_processed' = BytesProcessedAfterChunk
  /\ \E elapsed \in BOOLEAN :
       progress' = IF elapsed THEN Append(progress, bytes_processed) ELSE progress
  /\ chunk' = <<>>
  /\ fpc' = "next"
  /\ UNCHANGED <<target_os, image, head, total_size, open_attempts, get_sent, rd, empties,
                 tx_open, rx_open, wpc, buffer, written, writes, syncs, file, wres, fres,
                 via, late_ops>>

\* "data_tx.send(chunk.to_vec())" completes; then bytes_processed and, when more
\* than 100 ms passed since the last update, a Flashing(progress) message.
ProducerSend ==
  /\ fpc = "send"
  /\ SendCanProceed
  /\ queue' = Append(queue, chunk)
  /\ bytes_processed' = BytesProcessedAfterChunk
  /\ \E elapsed \in BOOLEAN :
       progress' = IF elapsed THEN Append(progress, bytes_processed') ELSE progress
  /\ chunk' = <<>>
  /\ fpc' = "next"
  /\ UNCHANGED <<target_os, image, head, total_size, open_attempts, get_sent, rd, empties,
                 tx_open, rx_open, wpc, buffer, written, writes, syncs, file, wres, fres,
                 via, late_ops>>

\* "if let Err(_) = data_tx.send(..)": the producer drops data_tx and goes to
\* join the writer; it takes nothing more from the stream.
ProducerSendFailed ==
  /\ fpc = "send"
  /\ SendFails
  /\ tx_open' = FALSE
  /\ fpc' = "join_after_send_error"
  /\ UNCHANGED <<target_os, image, head, total_size, open_attempts, get_sent, rd, chunk,
                 empties, queue, rx_open, wpc, buffer, written, writes, syncs, file, wres,
                 fres, via, bytes_processed, progress, late_ops>>

\* As ResultAfterSendError, had the send's own error been returned.
ResultAfterSendError_SendError(w) == [kind |-> "err", msg |-> <<"sending on a closed channel">>]

\* As ResultAtEnd, had the joined result been dropped instead of propagated.
ResultAtEnd_Dropped(w) ==
  IF w.kind = "panic" THEN [kind |-> "err", msg |-> <<"Writer thread panicked">>]
                      ELSE [kind |-> "ok", msg |-> <<>>]

\* After a failed send: "Ok(result) => return result.context("Writer thread failed"),
\* Err(e) => return Err(anyhow!("Writer thread panicked: {:?}", e))"
ResultAfterSendError(w) ==
  CASE w.kind = "panic" -> Err(<<"Writer thread panicked">>)
    [] w.kind = "ok" -> Ok
    [] w.kind = "err" -> Err(<<"Writer thread failed">> \o w.msg)

\* At the end of the stream: "Ok(result) => result?, Err(e) => return Err(anyhow!(
\* "Writer thread panicked: {:?}", e))", then Ok(())
ResultAtEnd(w) ==
  CASE w.kind = "panic" -> Err(<<"Writer thread panicked">>)
    [] w.kind = "ok" -> Ok
    [] w.kind = "err" -> Err(w.msg)

\* writer_handle.join() after a failed send
ProducerJoinAfterSendError ==
  /\ fpc = "join_after_send_error"
  /\ wpc = "done"
  /\ fres' = ResultAfterSendError(wres)
  /\ via' = "send_error"
  /\ fpc' = "returned"
  /\ UNCHANGED <<target_os, image, head, total_size, open_attempts, get_sent, rd, chunk,
                 empties, queue, tx_open, rx_open, wpc, buffer, written, writes, syncs,
                 file, wres, bytes_processed, progress, late_ops>>

\* writer_handle.join() at the end of the stream
ProducerJoin ==
  /\ fpc = "join"
  /\ wpc = "done"
  /\ fres' = ResultAtEnd(wres)
  /\ via' = "end"
  /\ fpc' = "returned"
  /\ UNCHANGED <<target_os, image, head, total_size, open_attempts, get_sent, rd, chunk,
                 empties, queue, tx_open, rx_open, wpc, buffer, written, writes, syncs,
                 file, wres, bytes_processed, progress, late_ops>>

(* ------------------------- the writer thread -------------------------- *)

\* As BlockToWrite, had the whole buffer been written (a BufWriter's bypass).
BlockToWrite_Whole(buf) == buf
\* As Drained, had the drain stopped one byte short.
Drained_OneShort(buf) == SubSeq(buf, WRITE_BUFFER_SIZE, Len(buf))

\* "while buffer.len() >= WRITE_BUFFER_SIZE"
BlockReady(buf) == Len(buf) >= WRITE_BUFFER_SIZE
\* "&buffer[..WRITE_BUFFER_SIZE]"
BlockToWrite(buf) == SubSeq(buf, 1, WRITE_BUFFER_SIZE)
\* "buffer.drain(..WRITE_BUFFER_SIZE)"
Drained(buf) == SubSeq(buf, WRITE_BUFFER_SIZE + 1, Len(buf))

\* A write_all call as recorded in writes: the offset it starts at, its bytes,
\* whether it is the one after the loop, whether every sender was dropped by
\* then, and whether it succeeded.
WriteCall(data, final, succeeded) ==
  [off |-> written, data |-> data, final |-> final, closed |-> ~tx_open, ok |-> succeeded]

\* A device operation issued once flash() has returned.
Late(op) == IF fpc = "returned" THEN late_ops \cup {op} ELSE late_ops

\* The thread's closure has ended with result r: data_rx and file are dropped,
\* and with data_rx the chunks still queued.
WriterEnds(r) ==
  /\ wres' = r
  /\ wpc' = "done"
  /\ rx_open' = FALSE
  /\ queue' = <<>>
  /\ file' = "closed"

\* "for chunk in data_rx { buffer.extend_from_slice(&chunk); ..."
WriterRecv ==
  /\ wpc = "recv"
  /\ queue # <<>>
  /\ buffer' = buffer \o Head(queue)
  /\ queue' = Tail(queue)
  /\ wpc' = IF BlockReady(buffer') THEN "write" ELSE "recv"
  /\ UNCHANGED <<target_os, image, fpc, head, total_size, open_attempts, get_sent, rd,
                 chunk, empties, tx_open, rx_open, written, writes, syncs, file, wres,
                 fres, via, bytes_processed, progress, late_ops>>

\* As WriterWrite, had a failed write been skipped and the loop gone on.
WriterWrite_GoesOnAfterError ==
  /\ wpc = "write"
  /\ late_ops' = Late("write")
  /\ \E succeeded \in BOOLEAN :
       /\ writes' = Append(writes, WriteCall(BlockToWrite(buffer), FALSE, succeeded))
       /\ buffer' = Drained(buffer)
       /\ written' = written + WRITE_BUFFER_SIZE
       /\ wpc' = IF BlockReady(buffer') THEN "write" ELSE "recv"
       /\ UNCHANGED <<queue, rx_open, file, wres>>
  /\ UNCHANGED <<target_os, image, fpc, head, total_size, open_attempts, get_sent, rd,
                 chunk, empties, tx_open, syncs, fres, via, bytes_processed, progress>>

\* "file.write_all(&buffer[..WRITE_BUFFER_SIZE]).context(..)?; buffer.drain(..);
\* _written += WRITE_BUFFER_SIZE"; on Err the closure returns.
WriterWrite ==
  /\ wpc = "write"
  /\ late_ops' = Late("write")
  /\ \E succeeded \in BOOLEAN :
       /\ writes' = Append(writes, WriteCall(BlockToWrite(buffer), FALSE, succeeded))
       /\ IF succeeded
            THEN /\ buffer' = Drained(buffer)
                 /\ written' = written + WRITE_BUFFER_SIZE
                 /\ wpc' = IF BlockReady(buffer') THEN "write" ELSE "recv"
                 /\ UNCHANGED <<queue, rx_open, file, wres>>
            ELSE /\ WriterEnds(Err(<<"Failed to write to device (aligned block)", "io error">>))
                 /\ UNCHANGED <<buffer, written>>
  /\ UNCHANGED <<target_os, image, fpc, head, total_size, open_attempts, get_sent, rd,
                 chunk, empties, tx_open, syncs, fres, via, bytes_processed, progress>>

\* The for loop ends: the queue is empty and every sender is dropped.
WriterEndOfStream ==
  /\ wpc = "recv"
  /\ queue = <<>> /\ ~tx_open
  /\ wpc' = IF buffer # <<>> THEN "final" ELSE "sync"
  /\ UNCHANGED <<target_os, image, fpc, head, total_size, open_attempts, get_sent, rd,
                 chunk, empties, queue, tx_open, rx_open, buffer, written, writes, syncs,
                 file, wres, fres, via, bytes_processed, progress, late_ops>>

\* "if !buffer.is_empty() { file.write_all(&buffer).context(..)?; _written += .. }"
WriterFinalWrite ==
  /\ wpc = "final"
  /\ late_ops' = Late("write")
  /\ \E succeeded \in BOOLEAN :
       /\ writes' = Append(writes, WriteCall(buffer, TRUE, succeeded))
       /\ IF succeeded
            THEN /\ written' = written + Len(buffer)
                 /\ wpc' = "sync"
                 /\ UNCHANGED <<queue, rx_open, file, wres>>
            ELSE /\ WriterEnds(Err(<<"Failed to write to device (final block)", "io error">>))
                 /\ UNCHANGED written
  /\ UNCHANGED <<target_os, image, fpc, head, total_size, open_attempts, get_sent, rd,
                 chunk, empties, tx_open, buffer, syncs, fres, via, bytes_processed,
                 progress>>

\* What file.sync_all() can return: Ok, ENOTTY (25), another error.
SyncOutcomes == {"ok", "enotty", "io error"}
\* As SyncResult, had ENOTTY been an error on every platform.
SyncResult_Strict(outcome) ==
  IF outcome = "ok" THEN Ok ELSE Err(<<"Failed to sync device", outcome>>)

\* "if let Err(e) = file.sync_all() { #[cfg(macos, freebsd)] if code == 25 { return
\* Ok(()) } return Err(..context("Failed to sync device")) } Ok(())"
SyncResult(outcome) ==
  IF outcome = "ok" \/ (outcome = "enotty" /\ target_os = "macos")
    THEN Ok
    ELSE Err(<<"Failed to sync device", outcome>>)

WriterSync ==
  /\ wpc = "sync"
  /\ late_ops' = Late("sync")
  /\ \E outcome \in SyncOutcomes :
       /\ syncs' = Append(syncs, [outcome |-> outcome, after |-> Len(writes)])
       /\ WriterEnds(SyncResult(outcome))
  /\ UNCHANGED <<target_os, image, fpc, head, total_size, open_attempts, get_sent, rd,
                 chunk, empties, tx_open, buffer, written, writes, fres, via,
                 bytes_processed, progress>>

\* The closure panics: the thread unwinds, dropping data_rx and file.
WriterPanic ==
  /\ wpc \in {"recv", "write", "final", "sync"}
  /\ WriterEnds(Panicked)
  /\ UNCHANGED <<target_os, image, fpc, head, total_size, open_attempts, get_sent, rd,
                 chunk, empties, tx_open, buffer, written, writes, syncs, fres, via,
                 bytes_processed, progress, late_ops>>

NoLsblk == [blockdevices |-> <<>>, findmnt |-> [ok |-> FALSE, source |-> <<>>]]
NoListed == [done |-> FALSE, devices |-> <<>>]
NoSize == [kind |-> "none", m |-> 0, e |-> 0]
\* The entries of a sequence.
Range(seq) == {seq[k] : k \in 1..Len(seq)}

(* ======================= the Device Managers =========================== *)
(* LinuxDiskManager and MacOSDiskManager: unmount and format, each call    *)
(* as its privilege test, its native tool run and the mapping of the       *)
(* tool's exit to the result.                                              *)

\* enum FileSystemType
FileSystemTypes == {"Fat32", "ExFat", "Ntfs", "Ext4", "Apfs"}

\* FileSystemType::macos_options and linux_options
macos_options == <<"Apfs", "ExFat", "Fat32">>
linux_options == <<"Ext4", "ExFat", "Fat32", "Ntfs">>

\* FileSystemType::as_diskutil_format: Ext4 is given diskutil's name of exFAT.
as_diskutil_format(fs) ==
  CASE fs = "Fat32" -> "FAT32"
    [] fs = "ExFat" -> "ExFAT"
    [] fs = "Ntfs" -> "NTFS"
    [] fs = "Ext4" -> "ExFAT"
    [] fs = "Apfs" -> "APFS"

\* LinuxDiskManager::format, "let (cmd, args) = match fs_type": the mkfs tool
\* of each kind, none for Apfs.
linux_mkfs(fs) ==
  CASE fs = "Fat32" -> "mkfs.vfat"
    [] fs = "ExFat" -> "mkfs.exfat"
    [] fs = "Ntfs" -> "mkfs.ntfs"
    [] fs = "Ext4" -> "mkfs.ext4"
    [] fs = "Apfs" -> "none"

\* The filesystem a native formatter run as (cmd, arg) leaves on the device.
FormatterMakes(cmd, arg) == IF cmd = "diskutil eraseDisk" THEN arg ELSE cmd

NoCall == [op |-> "none", fs |-> "none"]
NoPrev == [op |-> "none", res |-> "none"]
\* The calls of the trait DiskManager that change a device.
ManagerCalls == {[op |-> "unmount", fs |-> "none"]}
                  \cup {[op |-> "format", fs |-> fs] : fs \in FileSystemTypes}

\* What the stderr of a failed native tool holds, as far as the managers look:
\* the words "busy" or "not mounted", or neither.
Stderrs == {"busy", "not mounted", "other"}

\* The exits of a native tool: success, failure with a stderr, or the tool
\* could not be run at all (Command::output() returned Err).
ToolExits ==
  {[ran |-> TRUE, success |-> TRUE, stderr |-> "other"]}
    \cup {[ran |-> TRUE, success |-> FALSE, stderr |-> e] : e \in Stderrs}
    \cup {[ran |-> FALSE, success |-> FALSE, stderr |-> "other"]}

NoExit == [ran |-> FALSE, success |-> FALSE, stderr |-> "none"]

\* The exits the unmount tool can take on the device as it is: it succeeds or
\* reports "busy" only on a mounted device, and reports "not mounted" only on
\* one that is not (diskutil may also succeed there).
UnmountExits ==
  {x \in ToolExits :
     /\ (x.success /\ platform = "linux") => mounted
     /\ (~x.success /\ x.stderr = "busy") => mounted
     /\ (~x.success /\ x.stderr = "not mounted") => ~mounted}

\* The exits of a formatter: it never reports "not mounted".
FormatExits == {x \in ToolExits : x.stderr # "not mounted"}

HasPrivileges_Always == TRUE

\* "if !self.has_privileges() { return Err(DiskError::InsufficientPrivileges) }"
HasPrivileges == has_privileges

\* LinuxDiskManager::unmount: the mapping of umount's exit.
linux_unmount_result(x) ==
  IF ~x.ran THEN "IoError"
  ELSE IF x.success THEN "Ok"
  ELSE IF x.stderr = "busy" THEN "DeviceBusy"
  ELSE IF x.stderr = "not mounted" THEN "Ok"
  ELSE "CommandFailed"

\* MacOSDiskManager::unmount: the mapping of diskutil unmountDisk's exit.
macos_unmount_result(x) ==
  IF ~x.ran THEN "IoError"
  ELSE IF x.success THEN "Ok"
  ELSE IF x.stderr = "busy" THEN "DeviceBusy"
  ELSE "CommandFailed"

\* format of either manager: the mapping of the formatter's exit.
format_result(x) ==
  IF ~x.ran THEN "IoError"
  ELSE IF x.success THEN "Ok"
  ELSE IF x.stderr = "busy" THEN "DeviceBusy"
  ELSE "CommandFailed"

\* unmount(path) or format(path, fs_type, label) is called on the manager.
ManagerCall ==
  /\ mpc \in {"idle", "returned"}
  /\ ncalls < MaxCalls
  /\ ncalls' = ncalls + 1
  /\ call' \in ManagerCalls
  /\ has_privileges' \in BOOLEAN
  /\ prev' = [op |-> call.op, res |-> mres]
  /\ invoked' = <<>>
  /\ tool_exit' = NoExit
  /\ mres' = "none"
  /\ mpc' = "entered"
  /\ UNCHANGED <<platform, mounted, device_fs, lsblk, listed, size_str, size_bytes>>

\* The call's tests before any tool runs: privileges, and in the Linux
\* format the Apfs arm; then the native tool is started.
ManagerCheck ==
  /\ mpc = "entered"
  /\ IF ~HasPrivileges
       THEN /\ mres' = "InsufficientPrivileges" /\ mpc' = "returned"
            /\ UNCHANGED invoked
     ELSE IF call.op = "unmount"
       THEN /\ invoked' = <<[cmd |-> IF platform = "linux" THEN "umount"
                                     ELSE "diskutil unmountDisk",
                             arg |-> "none"]>>
            /\ mpc' = "tool" /\ UNCHANGED mres
     ELSE IF platform = "linux"
       THEN IF linux_mkfs(call.fs) = "none"
              THEN /\ mres' = "UnsupportedFilesystem" /\ mpc' = "returned"
                   /\ UNCHANGED invoked
              ELSE /\ invoked' = <<[cmd |-> linux_mkfs(call.fs), arg |-> "none"]>>
                   /\ mpc' = "tool" /\ UNCHANGED mres
     ELSE /\ invoked' = <<[cmd |-> "diskutil eraseDisk",
                           arg |-> as_diskutil_format(call.fs)]>>
          /\ mpc' = "tool" /\ UNCHANGED mres
  /\ UNCHANGED <<platform, call, has_privileges, tool_exit, prev, ncalls, mounted,
                 device_fs, lsblk, listed, size_str, size_bytes>>

\* The native tool exits and the call returns what it makes of the exit.
ManagerToolExit ==
  /\ mpc = "tool"
  /\ IF call.op = "unmount"
       THEN \E x \in UnmountExits :
              /\ tool_exit' = x
              /\ mres' = IF platform = "linux" THEN linux_unmount_result(x)
                                               ELSE macos_unmount_result(x)
              /\ mounted' = IF x.ran /\ x.success THEN FALSE ELSE mounted
              /\ UNCHANGED device_fs
       ELSE \E x \in FormatExits :
              /\ tool_exit' = x
              /\ mres' = format_result(x)
              /\ device_fs' = IF x.ran /\ x.success
                                THEN FormatterMakes(invoked[1].cmd, invoked[1].arg)
                                ELSE device_fs
              /\ UNCHANGED mounted
  /\ mpc' = "returned"
  /\ UNCHANGED <<platform, call, has_privileges, invoked, prev, ncalls, lsblk, listed,
                 size_str, size_bytes>>

\* Between two calls the device is mounted again (by the user or the desktop).
DeviceMounted ==
  /\ mpc = "returned" /\ ~mounted
  /\ mounted' = TRUE
  /\ UNCHANGED <<platform, mpc, call, has_privileges, invoked, tool_exit, mres, prev,
                 ncalls, device_fs, lsblk, listed, size_str, size_bytes>>

(* ----------------------------- parse_size ----------------------------- *)
(* linux.rs, parse_size: the size column of lsblk to a number of bytes.    *)
(* A size string is a sequence of characters; "e-acute" stands for a       *)
(* character of two bytes in UTF-8, every other one is one byte long.      *)

Digits == <<"0", "1">>
DigitSet == Range(Digits)
\* The suffixes of the match, in the order of their multipliers 1024^0 .. 1024^5.
Units == <<"B", "K", "M", "G", "T", "P">>
\* The characters of the size strings of the model: digits, the suffixes B, K
\* and P, a lower-case suffix, a space, the letters of "inf", and "e-acute".
SizeChars == DigitSet \cup {"B", "K", "P", "k", " ", "i", "n", "f", "e-acute"}
SizeStrings == UNION {[1..n -> SizeChars] : n \in 0..MaxSizeLen}

\* The results of parse_size: n * 1024^e bytes (a product kept as its two
\* factors), u64::MAX, or a panic.
Bytes1024(n, e) == [kind |-> "val", m |-> n, e |-> IF n = 0 THEN 0 ELSE e]
U64Max == [kind |-> "max", m |-> 0, e |-> 0]
Panic == [kind |-> "panic", m |-> 0, e |-> 0]

ByteLen(c) == IF c = "e-acute" THEN 2 ELSE 1

\* str::trim
RECURSIVE TrimStart(_)
TrimStart(str) ==
  IF str # <<>> /\ Head(str) = " " THEN TrimStart(Tail(str)) ELSE str
RECURSIVE TrimEnd(_)
TrimEnd(str) ==
  IF str # <<>> /\ str[Len(str)] = " "
    THEN TrimEnd(SubSeq(str, 1, Len(str) - 1)) ELSE str
Trim(str) == TrimEnd(TrimStart(str))

\* str::to_uppercase of the suffix, as far as the match can tell: "k" becomes
\* the suffix "K", no other character of the model becomes a suffix.
ToUpper(c) == IF c = "k" THEN "K" ELSE c

AllDigits(str) == str # <<>> /\ \A k \in 1..Len(str) : str[k] \in DigitSet
DigitValue(c) == CHOOSE v \in 0..(Len(Digits) - 1) : Digits[v + 1] = c
\* The number a string of digits denotes.
RECURSIVE DecimalValue(_)
DecimalValue(str) ==
  IF str = <<>> THEN 0
  ELSE 10 * DecimalValue(SubSeq(str, 1, Len(str) - 1)) + DigitValue(str[Len(str)])

\* str::parse::<u64> on the strings of the model: digits only.
ParseU64(str) ==
  IF AllDigits(str) THEN [ok |-> TRUE, val |-> DecimalValue(str)]
                    ELSE [ok |-> FALSE, val |-> 0]

\* str::parse::<f64> on the strings of the model: a string of digits is its
\* number, "inf" is infinity, anything else an error.
ParseF64(str) ==
  IF AllDigits(str) THEN [ok |-> TRUE, kind |-> "finite", val |-> DecimalValue(str)]
  ELSE IF str = <<"i", "n", "f">> THEN [ok |-> TRUE, kind |-> "inf", val |-> 0]
  ELSE [ok |-> FALSE, kind |-> "err", val |-> 0]

UnitIndex(c) == CHOOSE e \in 0..(Len(Units) - 1) : Units[e + 1] = c

\* "(n * multiplier as f64) as u64": a saturating cast, infinity becomes
\* u64::MAX; the finite products of the model are below 2^64 and exact.
ScaledToU64(f, e) ==
  IF f.kind = "inf" THEN U64Max ELSE Bytes1024(f.val, e)

\* fn parse_size(size_str: &str) -> u64
parse_size(str) ==
  LET trimmed == Trim(str) IN
    IF trimmed = <<>> THEN Bytes1024(0, 0)
    ELSE
      LET last == trimmed[Len(trimmed)]
          num_str == SubSeq(trimmed, 1, Len(trimmed) - 1)
      IN  IF ByteLen(last) > 1 THEN Panic
          ELSE IF ToUpper(last) \in Range(Units)
            THEN LET f == ParseF64(Trim(num_str)) IN
                   IF f.ok THEN ScaledToU64(f, UnitIndex(ToUpper(last)))
                           ELSE Bytes1024(0, 0)
          ELSE LET n == ParseU64(trimmed) IN
                 IF n.ok THEN Bytes1024(n.val, 0) ELSE Bytes1024(0, 0)

\* parse_size is called on size_str and returns.
ParseSizeCall ==
  /\ size_bytes = NoSize
  /\ size_bytes' = parse_size(size_str)
  /\ UNCHANGED <<platform, mpc, call, has_privileges, invoked, tool_exit, mres, prev,
                 ncalls, mounted, device_fs, lsblk, listed, size_str>>

(* ------------------------ the Linux enumeration ------------------------ *)
(* linux.rs, parse_lsblk_output and get_root_device: lsblk's block devices *)
(* to the Device list, the root disk marked from findmnt's SOURCE of "/".  *)

\* str::contains and str::starts_with
Contains(str, sub) ==
  \E k \in 0..(Len(str) - Len(sub)) : SubSeq(str, k + 1, k + Len(sub)) = sub
StartsWith(str, pre) ==
  Len(pre) <= Len(str) /\ SubSeq(str, 1, Len(pre)) = pre

\* "/dev/"
DevDir == <<"/", "d", "e", "v", "/">>
\* format!("/dev/{}", block.name)
DevPath(name) == DevDir \o name

\* The disks of the model: sda, sdaa and sdb; the first partition of a disk;
\* the path of a logical volume.
sda == <<"s", "d", "a">>
sdaa == <<"s", "d", "a", "a">>
sdb == <<"s", "d", "b">>
DiskNames == {sda, sdaa, sdb}
PartName(disk) == disk \o <<"1">>
VolumePath == DevDir \o <<"m", "a", "p", "p", "e", "r", "/", "v", "g">>
loop0 == <<"l", "o", "o", "p", "0">>

\* struct BlockDevice, for a disk with one partition: where "/" is mounted
\* (root_at: "none", on the "disk" itself, on its "part", or on a logical
\* "lvm" volume of that partition), and whether lsblk printed its PATH.
DiskBlock(disk, root_at, with_path) ==
  [name |-> disk, size |-> <<"1", "G">>, device_type |-> "disk",
   path |-> [some |-> with_path, val |-> DevPath(disk)],
   mountpoint |-> IF root_at = "disk" THEN <<"/">> ELSE <<>>,
   children |-> << [name |-> PartName(disk), device_type |-> "part",
                    mountpoint |-> IF root_at = "part" THEN <<"/">> ELSE <<>>,
                    children |-> IF root_at = "lvm"
                                   THEN << [path |-> VolumePath, mountpoint |-> <<"/">>] >>
                                   ELSE <<>>] >>]
\* A loop device and a partition printed at the top level: both are skipped.
LoopBlock ==
  [name |-> loop0, size |-> <<"1", "G">>, device_type |-> "loop",
   path |-> [some |-> TRUE, val |-> DevPath(loop0)], mountpoint |-> <<>>,
   children |-> <<>>]

\* What findmnt prints for "/": the path of the block mounted there.
RootSource(disk, root_at) ==
  CASE root_at = "disk" -> DevPath(disk)
    [] root_at = "part" -> DevPath(PartName(disk))
    [] root_at = "lvm" -> VolumePath

\* The outputs of lsblk and findmnt the model parses: one or two disks, the
\* root filesystem on one of them, findmnt succeeding or not.
LsblkOutputs ==
  {[blockdevices |-> <<LoopBlock>> \o
                     [k \in 1..Len(ds) |->
                        DiskBlock(ds[k], IF ds[k] = host THEN root_at ELSE "none", wp)],
    findmnt |-> [ok |-> ok, source |-> IF ok THEN RootSource(host, root_at) ELSE <<>>]] :
     ds \in {<<a>> : a \in DiskNames}
            \cup {<<a, b>> : <<a, b>> \in {x \in DiskNames \X DiskNames : x[1] # x[2]}},
     host \in DiskNames, root_at \in {"disk", "part", "lvm"},
     wp \in BOOLEAN, ok \in BOOLEAN}

\* The outputs in which the root filesystem is on a listed disk.
RootedLsblkOutputs ==
  {o \in LsblkOutputs :
     \E k \in 1..Len(o.blockdevices) :
       \/ o.blockdevices[k].mountpoint = <<"/">>
       \/ \E c \in 1..Len(o.blockdevices[k].children) :
            \/ o.blockdevices[k].children[c].mountpoint = <<"/">>
            \/ o.blockdevices[k].children[c].children # <<>>}

\* "root_device.as_ref().map(|rd| path.contains(rd) || rd.contains(&block.name))
\*  .unwrap_or(false)"
is_root_device(block, path, root_device) ==
  root_device.ok
    /\ (Contains(path, root_device.source) \/ Contains(root_device.source, block.name))

\* The Device pushed for a block (path, name and flag; size as parse_size gives it).
DeviceOf(block, root_device) ==
  LET path == IF block.path.some THEN block.path.val ELSE DevPath(block.name) IN
    [path |-> path, name |-> block.name, size_bytes |-> parse_size(block.size),
     is_protected |-> is_root_device(block, path, root_device)]

\* The blocks parse_lsblk_output keeps: no loop or ram device, no partition,
\* only disk and rom, only with a size above 0.
KeptBlock(block) ==
  /\ ~StartsWith(block.name, <<"l", "o", "o", "p">>)
  /\ ~StartsWith(block.name, <<"r", "a", "m">>)
  /\ block.device_type # "part"
  /\ block.device_type \in {"disk", "rom"}
  /\ parse_size(block.size) # Bytes1024(0, 0)

\* LinuxDiskManager::parse_lsblk_output
RECURSIVE parse_lsblk_output(_, _)
parse_lsblk_output(blockdevices, root_device) ==
  IF blockdevices = <<>> THEN <<>>
  ELSE (IF KeptBlock(Head(blockdevices))
          THEN <<DeviceOf(Head(blockdevices), root_device)>> ELSE <<>>)
       \o parse_lsblk_output(Tail(blockdevices), root_device)

\* list_devices: lsblk ran and its output is parsed.
ListDevicesCall ==
  /\ ~listed.done
  /\ listed' = [done |-> TRUE,
                devices |-> parse_lsblk_output(lsblk.blockdevices, lsblk.findmnt)]
  /\ UNCHANGED <<platform, mpc, call, has_privileges, invoked, tool_exit, mres, prev,
                 ncalls, mounted, device_fs, lsblk, size_str, size_bytes>>

(* --------------------------- specifications --------------------------- *)

\* The pipeline before flash() is called (and throughout the controller's runs).
PipeUnused ==
  /\ image = 0 /\ fpc = "idle" /\ head = "none" /\ total_size = 0
  /\ open_attempts = 0 /\ get_sent = FALSE /\ rd = 0 /\ chunk = <<>> /\ empties = 0
  /\ queue = <<>> /\ tx_open = FALSE /\ rx_open = FALSE /\ wpc = "unspawned"
  /\ buffer = <<>> /\ written = 0 /\ writes = <<>> /\ syncs = <<>> /\ file = "unopened"
  /\ wres = NoResult /\ fres = NoResult /\ via = "none" /\ bytes_processed = 0
  /\ progress = <<>> /\ late_ops = {}
PipeIdle == target_os = "linux" /\ PipeUnused

\* App::new, then main's privilege warning and first refresh_devices.
AppInit ==
  /\ selected_fs_index = 0 /\ selected_iso_index = 0 /\ should_quit = FALSE
  /\ input_buffer = <<>> /\ inbox = <<>> /\ tasks = <<>>
  /\ loop_pc = "recv"
  /\ \E privileged \in BOOLEAN, r \in ListResults :
       LET first == IF privileged THEN Idle
                    ELSE Error("Warning: Not running as root", NoText, NoText)
           after == [devices |-> IF r.ok THEN r.list ELSE <<>>,
                     state |-> IF r.ok THEN first ELSE Error("DiskError", <<r.err>>, NoText)]
       IN /\ devices = after.devices
          /\ selected_index = 0
          /\ state = after.state

\* The controller: the driving loop and the background tasks.
\* A manager no call was made to yet.
ManagerIdle ==
  /\ platform = "linux" /\ mpc = "idle" /\ call = NoCall /\ has_privileges = FALSE
  /\ invoked = <<>> /\ tool_exit = NoExit /\ mres = "none" /\ prev = NoPrev
  /\ ncalls = 0 /\ mounted = FALSE /\ device_fs = "none"

\* No enumeration output parsed yet, parse_size not called yet.
ListIdle == lsblk = NoLsblk /\ listed = NoListed
SizeIdle == size_str = <<>> /\ size_bytes = NoSize

\* The controller of a build for either platform.
Init ==
  /\ target_os \in {"linux", "macos"}
  /\ AppInit /\ PipeUnused /\ ManagerIdle /\ ListIdle /\ SizeIdle

Next ==
  \/ LoopRecv /\ UNCHANGED <<pipeVars, mgrVars>>
  \/ KeyPress /\ UNCHANGED <<pipeVars, mgrVars>>
  \/ PollTimeout /\ UNCHANGED <<pipeVars, mgrVars>>
  \/ TaskStep /\ UNCHANGED <<pipeVars, mgrVars>>

Spec == Init /\ [][Next]_vars

\* The controller while a flash() runs on its own.
AppIdle ==
  /\ devices = <<>> /\ selected_index = 0 /\ state = Idle /\ input_buffer = <<>>
  /\ selected_fs_index = 0 /\ selected_iso_index = 0 /\ should_quit = FALSE
  /\ inbox = <<>> /\ tasks = <<>> /\ loop_pc = "recv"

\* One call of Flasher::flash, on either platform, for an image of any length.
FlashInit ==
  /\ AppIdle /\ ManagerIdle /\ ListIdle /\ SizeIdle
  /\ target_os \in {"linux", "macos"}
  /\ image \in 0..MaxBytes
  /\ fpc = "head" /\ head = "none" /\ total_size = 0
  /\ open_attempts = 0 /\ get_sent = FALSE /\ rd = 0 /\ chunk = <<>> /\ empties = 0
  /\ queue = <<>> /\ tx_open = FALSE /\ rx_open = FALSE /\ wpc = "unspawned"
  /\ buffer = <<>> /\ written = 0 /\ writes = <<>> /\ syncs = <<>> /\ file = "unopened"
  /\ wres = NoResult /\ fres = NoResult /\ via = "none" /\ bytes_processed = 0
  /\ progress = <<>> /\ late_ops = {}

FlashNext ==
  \/ FlashHead /\ UNCHANGED <<appVars, mgrVars>>
  \/ FlashOpen /\ UNCHANGED <<appVars, mgrVars>>
  \/ FlashSpawnWriter /\ UNCHANGED <<appVars, mgrVars>>
  \/ FlashGet /\ UNCHANGED <<appVars, mgrVars>>
  \/ StreamNext /\ UNCHANGED <<appVars, mgrVars>>
  \/ ProducerSend /\ UNCHANGED <<appVars, mgrVars>>
  \/ ProducerSendFailed /\ UNCHANGED <<appVars, mgrVars>>
  \/ ProducerJoinAfterSendError /\ UNCHANGED <<appVars, mgrVars>>
  \/ ProducerJoin /\ UNCHANGED <<appVars, mgrVars>>
  \/ WriterRecv /\ UNCHANGED <<appVars, mgrVars>>
  \/ WriterWrite /\ UNCHANGED <<appVars, mgrVars>>
  \/ WriterEndOfStream /\ UNCHANGED <<appVars, mgrVars>>
  \/ WriterFinalWrite /\ UNCHANGED <<appVars, mgrVars>>
  \/ WriterSync /\ UNCHANGED <<appVars, mgrVars>>
  \/ WriterPanic /\ UNCHANGED <<appVars, mgrVars>>

SpecFlash == FlashInit /\ [][FlashNext]_vars

\* The steps of the producer (the async body of flash, its requests and the
\* stream included) and those of the writer thread.
ProducerStep ==
  /\ \/ FlashHead \/ FlashOpen \/ FlashSpawnWriter \/ FlashGet \/ StreamNext
     \/ ProducerSend \/ ProducerSendFailed \/ ProducerJoinAfterSendError \/ ProducerJoin
  /\ UNCHANGED <<appVars, mgrVars>>
WriterStep ==
  /\ \/ WriterRecv \/ WriterWrite \/ WriterEndOfStream \/ WriterFinalWrite
     \/ WriterSync \/ WriterPanic
  /\ UNCHANGED <<appVars, mgrVars>>

\* One call of flash() with its scheduling: the task that runs flash() and the
\* writer thread each go on while they can; requests, stream reads and device
\* calls return.
SpecFlashLive ==
  /\ FlashInit /\ [][FlashNext]_vars
  /\ WF_vars(ProducerStep) /\ WF_vars(WriterStep)

\* A Device Manager of either platform, called with or without privileges on
\* a device that is mounted or not.
ManagerInit ==
  /\ AppIdle /\ PipeIdle /\ ListIdle /\ SizeIdle
  /\ platform \in {"linux", "macos"}
  /\ mounted \in BOOLEAN
  /\ device_fs = "old"
  /\ mpc = "idle" /\ call = NoCall /\ has_privileges = FALSE /\ invoked = <<>>
  /\ tool_exit = NoExit /\ mres = "none" /\ prev = NoPrev /\ ncalls = 0

ManagerNext ==
  \/ ManagerCall /\ UNCHANGED <<appVars, pipeVars>>
  \/ ManagerCheck /\ UNCHANGED <<appVars, pipeVars>>
  \/ ManagerToolExit /\ UNCHANGED <<appVars, pipeVars>>
  \/ DeviceMounted /\ UNCHANGED <<appVars, pipeVars>>

SpecManager == ManagerInit /\ [][ManagerNext]_vars

\* parse_size, called on any size string of the model.
SizeInit ==
  /\ AppIdle /\ PipeIdle /\ ManagerIdle /\ ListIdle
  /\ size_str \in SizeStrings
  /\ size_bytes = NoSize

SizeNext == ParseSizeCall /\ UNCHANGED <<appVars, pipeVars>>

SpecSize == SizeInit /\ [][SizeNext]_vars

\* list_devices of the Linux manager, on any of the model's lsblk outputs.
ListInit ==
  /\ AppIdle /\ PipeIdle /\ ManagerIdle /\ SizeIdle
  /\ lsblk \in RootedLsblkOutputs
  /\ listed = NoListed

ListNext == ListDevicesCall /\ UNCHANGED <<appVars, pipeVars>>

SpecList == ListInit /\ [][ListNext]_vars

\* run_app's loop goes on: the try_recv half, then the poll half (a key press
\* or the 100 ms timeout).
LoopTakes == LoopRecv /\ UNCHANGED <<pipeVars, mgrVars>>
LoopPolls == (KeyPress \/ PollTimeout) /\ UNCHANGED <<pipeVars, mgrVars>>
\* The tokio runtime runs a spawned task, and every call it awaits returns.
TaskRuns == TaskStep /\ UNCHANGED <<pipeVars, mgrVars>>

\* The controller with its scheduling: the loop keeps iterating until quit and
\* the runtime keeps running the spawned tasks.
SpecLive ==
  /\ Init /\ [][Next]_vars
  /\ WF_vars(LoopTakes) /\ WF_vars(LoopPolls) /\ WF_vars(TaskRuns)

\* The user dismisses or cancels: a key press that brings the state back to Idle.
BackToIdle == KeyPress /\ state # Idle /\ state' = Idle /\ UNCHANGED <<pipeVars, mgrVars>>

\* SpecLive with a user who, offered the way back to Idle again and again,
\* takes it at some time.
SpecDismiss == SpecLive /\ SF_vars(BackToIdle)

(* ============================== claims ================================= *)

ConfirmTags == {"ConfirmDestructive", "ConfirmFlash"}
\* The tasks with a Device Manager or Flasher call made on their device.
CallMade(t) == t.pc \in {"unmounting", "formatting", "flashing", "ejecting"}

(* C1: no unmount, format or flash is ever started on a device whose         *)
(* is_protected flag was true when unmount_selected, format_selected or      *)
(* start_flashing started it.  Stated as the claim states it; the flash      *)
(* flow violates it.                                                         *)
C1_NoOperationOnProtectedDevice ==
  \A i \in 1..Len(tasks) : CallMade(tasks[i]) => ~tasks[i].is_protected

(* C2: a format or flash task is spawned only by a step taken in a Confirm   *)
(* state with input_buffer equal to the selected device's path; and in a     *)
(* Confirm state with any other text no step (Enter included) spawns a task, *)
(* and none is running, so no Device Manager or Flasher call is made.        *)
C2_ConfirmationGate ==
  [][ /\ (Len(tasks') > Len(tasks) /\ tasks'[Len(tasks')].kind \in {"format", "flash"})
           => /\ state.tag \in ConfirmTags
              /\ HasSelectedDevice
              /\ input_buffer = selected_device.path
              /\ tasks'[Len(tasks')].path = input_buffer
      /\ (state.tag \in ConfirmTags /\ (~HasSelectedDevice \/ input_buffer # selected_device.path))
           => tasks = <<>> /\ tasks' = <<>>
    ]_vars

\* A format is under way on the device whose path was typed.
C2_Witness ==
  /\ Len(tasks) = 1 /\ tasks[1].kind = "format" /\ tasks[1].pc = "formatting"
  /\ input_buffer = tasks[1].path

(* C3: at most one background task spawned by the controller is running at   *)
(* any time.                                                                 *)
C3_AtMostOneTask == Len(tasks) <= 1

\* A task is running, its first messages already taken, the loop polling for keys.
C3_Witness ==
  /\ Len(tasks) = 1 /\ tasks[1].pc = "flashing"
  /\ state.tag = "Flashing" /\ loop_pc = "poll"

(* ---- the pipeline ---- *)

RECURSIVE Concat(_)
\* The bytes of the successful writes of a write history, in order.
Concat(ws) ==
  IF ws = <<>> THEN <<>>
  ELSE (IF Head(ws).ok THEN Head(ws).data ELSE <<>>) \o Concat(Tail(ws))
DeviceBytes == Concat(writes)
IsPrefix(a, b) == Len(a) <= Len(b) /\ a = SubSeq(b, 1, Len(a))

(* C4: the bytes written to the device, concatenated in write order, are at  *)
(* every moment a prefix of the image; once the writer has returned Ok they  *)
(* are exactly the bytes read from the stream, and when flash() returns Ok   *)
(* they are the whole image, whatever the chunk boundaries.                  *)
C4_BytesPreserved ==
  /\ IsPrefix(DeviceBytes, Bytes(1, image))
  /\ wres.kind = "ok" => DeviceBytes = Bytes(1, rd)
  /\ fres.kind = "ok" => DeviceBytes = Bytes(1, image)

\* A whole image written in two blocks and a final partial one, an empty
\* chunk among those read.
C4_Witness ==
  /\ fres.kind = "ok" /\ image = 5 /\ Len(writes) = 3 /\ empties = 1
  /\ DeviceBytes = Bytes(1, 5)

(* C5: whenever flash() has returned a fatal error of the pipeline (failed   *)
(* GET, failed chunk, writer failure), the queue is closed, the writer       *)
(* joined (ended), the device file closed, and no device write or sync is    *)
(* issued afterwards.  Stated as the claim states it; the returns taken with *)
(* "?" on the GET and on a chunk violate it.                                 *)
C5_UnwoundBeforeErrorReturn ==
  (fpc = "returned" /\ fres.kind = "err" /\ via \in {"get", "chunk", "send_error", "end"})
    => /\ ~tx_open
       /\ wpc = "done"
       /\ file = "closed"
       /\ late_ops = {}

(* C6: once the writer has ended on a device error, a send of the producer   *)
(* cannot complete and fails; after a failed send the producer reads nothing *)
(* more from the stream; it returns only once the writer has ended, and the  *)
(* error flash() returns then carries the writer's error; whenever a writer  *)
(* ended on an error, flash() does not return Ok.                            *)
C6_WriterFailureSurfaces ==
  /\ [](  /\ (fpc = "send" /\ ~rx_open) => (~ENABLED ProducerSend /\ ENABLED ProducerSendFailed)
          /\ via = "send_error"
               => /\ wpc = "done" /\ ~tx_open /\ fres.kind = "err"
                  /\ wres.kind = "err" => fres.msg = <<"Writer thread failed">> \o wres.msg
          /\ (fpc = "returned" /\ via \in {"get", "chunk", "send_error", "end"}
                /\ wres.kind = "err") => fres.kind = "err" )
  /\ [][ (fpc = "join_after_send_error" \/ via = "send_error")
           => rd' = rd /\ chunk' = chunk /\ get_sent' = get_sent ]_vars

\* flash() returned the writer's write error after a failed send, part of the
\* image still unread.
C6_Witness ==
  /\ via = "send_error" /\ wres.kind = "err" /\ rd < image
  /\ writes # <<>> /\ ~writes[Len(writes)].ok

(* C7: the hand-off queue never holds more than CHANNEL_BOUND (4) chunks, and *)
(* with the queue full and the receiver alive the producer's send cannot      *)
(* complete.                                                                  *)
C7_QueueBounded ==
  /\ Len(queue) <= CHANNEL_BOUND
  /\ (fpc = "send" /\ rx_open /\ Len(queue) = CHANNEL_BOUND) => ~ENABLED ProducerSend

\* Four chunks queued, nothing received yet, a fifth in the producer's hands.
C7_Witness ==
  /\ fpc = "send" /\ Len(queue) = 4 /\ chunk # <<>>
  /\ wpc = "recv" /\ buffer = <<>> /\ writes = <<>>

(* C8: after a HEAD response that is not successful or carries no parseable  *)
(* content-length (or a HEAD that failed), flash() has returned an error,    *)
(* and the device was never opened, no writer spawned, no GET issued.        *)
C8_PreflightFailureTouchesNothing ==
  head \in {"send_error", "not_success", "no_length"}
    => /\ fpc = "returned" /\ fres.kind = "err" /\ via = "head"
       /\ open_attempts = 0 /\ file = "unopened"
       /\ wpc = "unspawned" /\ ~tx_open /\ ~rx_open
       /\ ~get_sent

\* The HEAD answered with a non-success status.
C8_Witness == head = "not_success" /\ fpc = "returned" /\ fres = Err(<<"Failed to access URL">>)

(* C9: every write issued inside the loop is exactly WRITE_BUFFER_SIZE long   *)
(* and starts at a multiple of WRITE_BUFFER_SIZE; a write of another length   *)
(* is shorter, not empty, the last write, and issued after every sender was   *)
(* dropped.                                                                   *)
C9_AlignedWrites ==
  \A k \in 1..Len(writes) :
    LET w == writes[k] IN
      /\ w.off % WRITE_BUFFER_SIZE = 0
      /\ ~w.final => Len(w.data) = WRITE_BUFFER_SIZE
      /\ w.final => k = Len(writes) /\ w.closed
      /\ Len(w.data) # WRITE_BUFFER_SIZE
           => /\ w.final
              /\ Len(w.data) > 0 /\ Len(w.data) < WRITE_BUFFER_SIZE

\* Two aligned blocks, then the final partial block.
C9_Witness ==
  /\ Len(writes) = 3 /\ ~writes[1].final /\ ~writes[2].final
  /\ writes[3].final /\ Len(writes[3].data) < WRITE_BUFFER_SIZE

(* C10: when the stream ends the producer has dropped its sender before it   *)
(* joins; the result flash() returns then is Ok exactly when the writer      *)
(* returned Ok, the writer's error when it returned one, and the             *)
(* "panicked" error, different from every writer error, when it panicked.    *)
C10_JoinPropagates ==
  /\ fpc = "join" => ~tx_open
  /\ via = "end"
       => /\ fpc = "returned" /\ wpc = "done" /\ ~tx_open
          /\ fres.kind = "ok" <=> wres.kind = "ok"
          /\ wres.kind = "err" => fres = Err(wres.msg)
          /\ wres.kind = "panic" => fres = Err(<<"Writer thread panicked">>)
          /\ fres = Err(<<"Writer thread panicked">>) => wres.kind = "panic"

\* The stream ended, the writer panicked, flash() returned that as an error.
C10_Witness == via = "end" /\ wres.kind = "panic" /\ fres.kind = "err" /\ rd = image

(* ---- the controller, continued ---- *)

BusyTags == {"InProgress", "Flashing"}
MessageTags == {"Error", "Success"}

(* C11: no reachable state is a Confirm state (ConfirmDestructive or         *)
(* ConfirmFlash) whose selected device is protected: the flows are said to   *)
(* turn to Error before.  Stated as the claim states it; enter_format_menu,  *)
(* enter_confirm_mode, enter_iso_selection and flash_selected_iso test       *)
(* nothing of the device.                                                    *)
C11_NoConfirmForProtectedDevice ==
  (state.tag \in ConfirmTags /\ HasSelectedDevice) => ~selected_device.is_protected

(* C12: while the state is InProgress or Flashing, the key-handling half of   *)
(* a loop iteration (a key press of any key, 'q' included, or the timeout)    *)
(* changes neither the state, the device list, the selections, the typed      *)
(* text nor the quit flag, and spawns no task; and whenever the state         *)
(* changes from one of these two states, it does so in the try_recv half,     *)
(* to the message at the head of the inbox or, after a Success, to what       *)
(* refresh_devices leaves.                                                    *)
C12_InputBlockedWhileBusy ==
  [][ (state.tag \in BusyTags) =>
        /\ (loop_pc = "poll" /\ loop_pc' # "poll") =>
             /\ UNCHANGED <<state, devices, selected_index, selected_fs_index,
                            selected_iso_index, input_buffer, should_quit>>
             /\ tasks' = tasks
             /\ loop_pc' = "recv"
        /\ (state' # state) =>
             /\ loop_pc = "recv" /\ loop_pc' = "poll"
             /\ inbox # <<>> /\ inbox' = Tail(inbox)
             /\ \/ state' = Head(inbox)
                \/ Head(inbox).tag = "Success" /\ state'.tag = "Error" ]_vars

\* An operation is running, its InProgress is shown and the loop waits for a key.
C12_Witness ==
  /\ state.tag \in BusyTags /\ loop_pc = "poll"
  /\ Len(tasks) = 1 /\ tasks[1].pc # "spawned"

(* C13: in a Confirm state whose typed text differs from the selected         *)
(* device's path, a step that leaves the Confirm state otherwise than by      *)
(* cancelling (Enter) ends in an Error carrying both the expected path and    *)
(* the typed text, and leaves the device list and the selection as they       *)
(* were.  Stated as the claim states it; format_selected tests is_protected   *)
(* before it compares the texts.                                              *)
C13_MismatchNamesBothTexts ==
  [][ ( /\ state.tag \in ConfirmTags /\ HasSelectedDevice
        /\ input_buffer # selected_device.path
        /\ state' # state /\ state' # Idle )
      => /\ state' = Error("Confirmation mismatch", selected_device.path, input_buffer)
         /\ UNCHANGED <<devices, selected_index>> ]_vars

(* C14: the step that ends a flash task appends exactly one terminal message; *)
(* when the task ends after its eject call (the flash itself had succeeded),  *)
(* that message is a Success, whether the eject succeeded or failed (a failed *)
(* eject is named in the Success text); the message is an Error only when the *)
(* task ends at its unmount or at flasher.flash.                              *)
C14_EjectFailureIsSuccess ==
  [][ \A i \in 1..Len(tasks) :
        (tasks[i].kind = "flash" /\ tasks' = RemoveAt(tasks, i)) =>
          /\ Len(inbox') = Len(inbox) + 1
          /\ LET m == inbox'[Len(inbox')] IN
               /\ inbox' = Append(inbox, m)
               /\ m.tag \in MessageTags
               /\ (tasks[i].pc = "ejecting") =>
                    \/ m = Success("Flash complete! Device ejected safely.", NoText, NoText)
                    \/ \E e \in DiskErrors :
                         m = Success("Flash complete, but eject failed", <<e>>, NoText)
               /\ (m.tag = "Error") => tasks[i].pc \in {"unmounting", "flashing"} ]_vars

\* A flash went through, its eject failed, and the Success that says so is shown.
C14_Witness ==
  /\ state.tag = "Success"
  /\ state.msg[1] = "Flash complete, but eject failed"
  /\ tasks = <<>>

C16_SuccessShownAfterReenumeration ==
  [][ ( /\ loop_pc = "recv" /\ loop_pc' = "poll"
        /\ inbox # <<>> /\ Head(inbox).tag = "Success" )
      => /\ state' = Head(inbox)
         /\ devices' \in DeviceLists ]_vars

\* The key press of Esc or Enter (code) that leaves the controller in Idle.
DismissedBy(code) ==
  /\ loop_pc = "poll"
  /\ dispatch_key([code |-> code, ch |-> ""])
  /\ loop_pc' = "recv"
  /\ state' = Idle
  /\ UNCHANGED <<pipeVars, mgrVars>>

(* C17: in Error and in Success, Esc and Enter each bring the state to Idle,  *)
(* and the state leaves Error or Success in no other way; and no state is a   *)
(* dead end: with the loop iterating, the tasks running and a user who does   *)
(* not refuse the way back for ever, the state is Idle again and again, up    *)
(* to the moment the user quits the program.                                  *)
C17_NoDeadEnd ==
  /\ []( (state.tag \in MessageTags /\ loop_pc = "poll") =>
           (ENABLED DismissedBy("Esc") /\ ENABLED DismissedBy("Enter")) )
  /\ [][ (state.tag \in MessageTags /\ state' # state) =>
           (state' = Idle /\ loop_pc = "poll") ]_vars
  /\ []<>(state = Idle \/ loop_pc = "exited")

\* An Error is shown, nothing runs, and the loop waits for a key.
C17_Witness ==
  /\ state.tag = "Error" /\ loop_pc = "poll"
  /\ tasks = <<>> /\ inbox = <<>>
  /\ ENABLED DismissedBy("Esc")

(* ---- the write pipeline, continued ---- *)

(* C18: within one flash, the bytes_written values of the Flashing messages   *)
(* emitted so far are in non-decreasing order, and none exceeds the number    *)
(* of bytes read from the download stream so far.                             *)
C18_ProgressMonotone ==
  /\ \A k \in 1..Len(progress) : progress[k] <= rd
  /\ \A k \in 2..Len(progress) : progress[k - 1] <= progress[k]
  /\ bytes_processed <= rd

\* Two progress messages were emitted, the second with more bytes than the first.
C18_Witness ==
  /\ Len(progress) >= 2
  /\ progress[1] < progress[2]

(* C19: when the stream has ended after a whole transfer whose                *)
(* content-length equals the number of bytes streamed, the last Flashing      *)
(* message emitted carries bytes_written = total_bytes.  Stated as the claim  *)
(* states it; the message for a chunk is emitted only when more than 100 ms   *)
(* passed since the last one.                                                 *)
C19_LastProgressIsTotal ==
  ( /\ fpc = "join" \/ via = "end"
    /\ total_size = image /\ rd = image
    /\ progress # <<>> )
  => progress[Len(progress)] = total_size

(* ---- the controller, continued ---- *)

(* C20: a step that is not a step of the driving loop (a step of a spawned    *)
(* task) leaves devices, selected_index, input_buffer, state and the other    *)
(* fields of the controller as they are and at most appends one message to    *)
(* the inbox; and the state changes in the try_recv half of the loop only by  *)
(* taking the message at the head of the inbox.                               *)
C20_TasksOnlySend ==
  [][ /\ (loop_pc' = loop_pc) =>
           /\ UNCHANGED <<devices, selected_index, input_buffer, state,
                          selected_fs_index, selected_iso_index, should_quit>>
           /\ \/ inbox' = inbox
              \/ /\ Len(inbox') = Len(inbox) + 1
                 /\ inbox' = Append(inbox, inbox'[Len(inbox')])
      /\ (loop_pc = "recv" /\ state' # state) =>
           /\ inbox # <<>> /\ inbox' = Tail(inbox)
           /\ tasks' = tasks
           /\ \/ state' = Head(inbox)
              \/ Head(inbox).tag = "Success" /\ state'.tag = "Error" ]_vars

\* A task has sent its messages, the terminal one included, and ended, while
\* the controller still shows the InProgress it set itself.
C20_Witness ==
  /\ tasks = <<>> /\ Len(inbox) >= 2
  /\ inbox[Len(inbox)].tag \in MessageTags
  /\ state.tag = "InProgress" /\ state # inbox[1]

(* ---- the Device Managers ---- *)

\* The filesystem kinds the claims name as unsupported by a platform's formatter.
Unsupported == {<<"macos", "Ext4">>, <<"linux", "Apfs">>}

(* C21: a has_privileges format() with a kind the platform's formatter does not   *)
(* support (Ext4 on macOS, Apfs on Linux) runs no native tool, neither        *)
(* before nor at its return, returns UnsupportedFilesystem and leaves the     *)
(* device's filesystem as it was.  Stated as the claim states it;             *)
(* as_diskutil_format hands diskutil "ExFAT" for Ext4.                        *)
C21_UnsupportedKindRejected ==
  ( /\ call.op = "format" /\ has_privileges
    /\ <<platform, call.fs>> \in Unsupported
    /\ mpc \in {"tool", "returned"} )
  => /\ invoked = <<>>
     /\ mpc = "returned" /\ mres = "UnsupportedFilesystem"

(* C22: a privileged format() with a kind the controller offers in            *)
(* fs_options never returns UnsupportedFilesystem, on either platform.        *)
(* Stated as the claim states it; App::new takes macos_options on every       *)
(* platform, Apfs included.                                                   *)
C22_OfferedKindsAccepted ==
  ( /\ call.op = "format" /\ has_privileges /\ mpc = "returned"
    /\ call.fs \in Range(fs_options) )
  => mres # "UnsupportedFilesystem"

(* C23: an unmount() whose native tool failed returns DeviceBusy when the     *)
(* tool's stderr says "busy" and Ok when it says "not mounted"; and an        *)
(* unmount() that follows a successful unmount() of the same, still           *)
(* unmounted device returns Ok when the tool succeeded or reported "not       *)
(* mounted".  On both platforms.  Stated as the claim states it;              *)
(* MacOSDiskManager::unmount has no "not mounted" arm.                        *)
C23_UnmountIdempotent ==
  ( /\ call.op = "unmount" /\ mpc = "returned" /\ tool_exit.ran )
  => /\ (~tool_exit.success /\ tool_exit.stderr = "busy") => mres = "DeviceBusy"
     /\ (~tool_exit.success /\ tool_exit.stderr = "not mounted") => mres = "Ok"
     /\ ( /\ prev = [op |-> "unmount", res |-> "Ok"] /\ ~mounted
          /\ tool_exit.success \/ tool_exit.stderr = "not mounted" ) => mres = "Ok"

(* C24: an unmount() or format() made without privileges runs no native       *)
(* tool at any time, returns InsufficientPrivileges, and leaves the device    *)
(* mounted or not, and its filesystem, as they were.                          *)
C24_NoPrivilegesNoTool ==
  /\ []( ( /\ call.op \in {"unmount", "format"} /\ ~has_privileges
           /\ mpc \in {"tool", "returned"} )
         => /\ invoked = <<>> /\ tool_exit = NoExit
            /\ mpc = "returned" /\ mres = "InsufficientPrivileges" )
  /\ [][ (mpc = "entered" /\ ~has_privileges) =>
           UNCHANGED <<mounted, device_fs>> ]_vars

\* Both operations were refused for lack of privileges, one after the other.
C24_Witness ==
  /\ mpc = "returned" /\ ~has_privileges /\ mres = "InsufficientPrivileges"
  /\ call.op = "format" /\ prev = [op |-> "unmount", res |-> "InsufficientPrivileges"]
  /\ invoked = <<>>

(* ---- the controller, continued ---- *)

\* The key press of Enter that leaves the state as it is.
EnterIgnored ==
  /\ loop_pc = "poll"
  /\ dispatch_key([code |-> "Enter", ch |-> ""])
  /\ loop_pc' = "recv"
  /\ UNCHANGED state
  /\ UNCHANGED <<pipeVars, mgrVars>>

(* C25: in every reachable state, DeviceSelected goes with a non-empty        *)
(* device list; and in Idle with an empty device list, Enter                  *)
(* (enter_select_mode) leaves the state as it is.                             *)
C25_SelectedNeedsDevices ==
  /\ (state.tag = "DeviceSelected") => devices # <<>>
  /\ (state = Idle /\ devices = <<>> /\ loop_pc = "poll") => ENABLED EnterIgnored

\* Idle with no device found, the loop waiting for a key: Enter changes nothing.
C25_Witness ==
  /\ state = Idle /\ devices = <<>> /\ loop_pc = "poll"
  /\ ENABLED EnterIgnored

(* C26: every step that brings the controller into ConfirmDestructive or      *)
(* ConfirmFlash from another state leaves input_buffer empty.                 *)
C26_ConfirmStartsEmpty ==
  [][ (state'.tag \in ConfirmTags /\ state.tag \notin ConfirmTags)
      => input_buffer' = <<>> ]_vars

\* A Confirm state just entered by a key press, nothing typed yet.
C26_Witness ==
  /\ state.tag \in ConfirmTags /\ input_buffer = <<>>
  /\ loop_pc = "recv" /\ HasSelectedDevice

(* ---- parse_size ---- *)

\* The prefix and the last character of a trimmed size string.
NumberPart(str) == SubSeq(Trim(str), 1, Len(Trim(str)) - 1)
UnitPart(str) == Trim(str)[Len(Trim(str))]
\* <number><unit>: digits followed by one of B, K, M, G, T, P.
WellFormedSize(str) ==
  /\ str = Trim(str) /\ Len(str) >= 2
  /\ AllDigits(NumberPart(str)) /\ UnitPart(str) \in Range(Units)
\* Malformed: a unit letter after a prefix that is no number, or a text that
\* ends in no unit letter and is no number.
MalformedSize(str) ==
  /\ Trim(str) # <<>>
  /\ IF ToUpper(UnitPart(str)) \in Range(Units)
       THEN ~AllDigits(Trim(NumberPart(str)))
       ELSE ~AllDigits(Trim(str))

(* C27: parse_size of <number><unit>, unit the letter of index e in           *)
(* B,K,M,G,T,P, is number * 1024^e; parse_size of the empty string and of     *)
(* every malformed string is 0.  Stated as the claim states it; a prefix      *)
(* "inf" is a number to parse::<f64>, and split_at panics inside a            *)
(* character of several bytes.                                                *)
C27_ParseSize ==
  (size_bytes # NoSize) =>
    /\ WellFormedSize(size_str) =>
         size_bytes = Bytes1024(DecimalValue(NumberPart(size_str)),
                                UnitIndex(UnitPart(size_str)))
    /\ (Trim(size_str) = <<>> \/ MalformedSize(size_str)) =>
         size_bytes = Bytes1024(0, 0)

(* ---- the Linux enumeration ---- *)

\* The block of lsblk's output a listed device was made of.
BlockNamed(name) ==
  CHOOSE b \in Range(lsblk.blockdevices) : b.name = name
\* The disk hosts the live root filesystem: "/" is mounted on it, on one of
\* its partitions, or on a volume of one of its partitions.
HostsRoot(block) ==
  \/ block.mountpoint = <<"/">>
  \/ \E c \in 1..Len(block.children) :
       \/ block.children[c].mountpoint = <<"/">>
       \/ \E v \in 1..Len(block.children[c].children) :
            block.children[c].children[v].mountpoint = <<"/">>

(* C28: when findmnt tells the root source, a device of the Linux             *)
(* enumeration is protected if and only if its disk hosts the root            *)
(* filesystem.  Stated as the claim states it; is_root_device compares by     *)
(* substring.                                                                 *)
C28_ProtectedIffHostsRoot ==
  (listed.done /\ lsblk.findmnt.ok) =>
    \A k \in 1..Len(listed.devices) :
      listed.devices[k].is_protected <=> HostsRoot(BlockNamed(listed.devices[k].name))

(* ---- the write pipeline, continued ---- *)

(* C29: the writer syncs the device at most once, and when it does, every     *)
(* sender is dropped (the stream has ended for it), every write before        *)
(* succeeded and no write follows; a writer that ended without a failed       *)
(* write and without a panic has synced exactly once.  A sync that returned   *)
(* ENOTTY on macOS ends the writer with Ok, as a successful one does; any     *)
(* other failed sync ends it with an error, and flash(), once returned, has   *)
(* returned an error.                                                         *)
C29_OneSyncAtTheEnd ==
  /\ Len(syncs) <= 1
  /\ (syncs # <<>>) =>
       /\ ~tx_open /\ wpc = "done"
       /\ syncs[1].after = Len(writes)
       /\ \A k \in 1..Len(writes) : writes[k].ok
       /\ LET o == syncs[1].outcome IN
            IF o = "ok" \/ (o = "enotty" /\ target_os = "macos")
              THEN wres = Ok
              ELSE /\ wres.kind = "err"
                   /\ (fpc = "returned") => fres.kind = "err"
  /\ ( /\ wpc = "done" /\ wres.kind # "panic"
       /\ \A k \in 1..Len(writes) : writes[k].ok )
     => Len(syncs) = 1

\* On macOS the sync after the last write returned ENOTTY, and flash() returned Ok.
C29_Witness ==
  /\ target_os = "macos" /\ syncs # <<>> /\ syncs[1].outcome = "enotty"
  /\ writes # <<>> /\ fpc = "returned" /\ via = "end" /\ fres = Ok

(* C30: under fair scheduling of the producer and of the writer thread,       *)
(* flash() returns; a producer that waits in send on a full queue leaves the  *)
(* send (the writer received, or ended); a writer that waits in recv on an    *)
(* empty queue leaves the recv (a chunk was sent, or every sender dropped).   *)
C30_NoDeadlock ==
  /\ <>(fpc = "returned")
  /\ (fpc = "send" /\ Len(queue) = CHANNEL_BOUND) ~> (fpc # "send")
  /\ (wpc = "recv" /\ queue = <<>>) ~> (wpc # "recv")

\* The producer waits in send on a full queue, the writer, with bytes of an
\* earlier chunk in its buffer, being about to receive.
C30_Witness ==
  /\ fpc = "send" /\ Len(queue) = CHANNEL_BOUND /\ rx_open
  /\ wpc = "recv" /\ buffer # <<>> /\ ~ENABLED ProducerSend

(* ---- the controller: quitting, the inbox, the order of calls ---- *)

\* A key press, of any key, that sets should_quit and ends run_app.
QuitKeyPress ==
  /\ KeyPress
  /\ should_quit' /\ loop_pc' = "exited"
  /\ UNCHANGED <<pipeVars, mgrVars>>

(* C31: while the state is InProgress or Flashing and the loop waits for a    *)
(* key, a key press exists that quits: it sets should_quit and ends the       *)
(* driving loop although an operation is in flight.  Stated as the claim      *)
(* states it; the arm of Flashing and InProgress in run_app is empty.         *)
C31_QuitHonouredWhileBusy ==
  (state.tag \in BusyTags /\ loop_pc = "poll") => ENABLED QuitKeyPress

\* The state try_recv's message m leaves: m itself, or, m being a Success,
\* what the refresh_devices that follows makes of it.
AppliedFrom(m, st) ==
  \/ st = m
  \/ m.tag = "Success" /\ \E r \in ListResults : st = refresh_devices(r, m).state

(* C32: the driving loop never waits for a message (its try_recv half goes    *)
(* on with an empty inbox too); an iteration takes at most one message, the   *)
(* oldest, and assigns it to the state; the tasks only append to the inbox;   *)
(* so messages are applied in the order sent.  None is dropped: every         *)
(* message sent is taken, and none is left when run_app returns.              *)
C32_InboxInOrder ==
  /\ [](loop_pc = "recv" => ENABLED LoopTakes)
  /\ [][ (inbox' # inbox) =>
           \/ /\ loop_pc = "recv" /\ loop_pc' = "poll"
              /\ inbox # <<>> /\ inbox' = Tail(inbox)
              /\ AppliedFrom(Head(inbox), state')
           \/ /\ loop_pc' = loop_pc /\ state' = state
              /\ Len(inbox') = Len(inbox) + 1
              /\ SubSeq(inbox', 1, Len(inbox)) = inbox ]_vars
  /\ [][ (loop_pc = "recv" /\ loop_pc' = "poll" /\ inbox # <<>>) =>
           (inbox' = Tail(inbox) /\ AppliedFrom(Head(inbox), state')) ]_vars
  /\ [](loop_pc = "exited" => inbox = <<>>)
  /\ (inbox # <<>>) ~> (inbox = <<>>)

\* Two different messages of a flash task wait in the inbox, the loop being
\* about to take one.
C32_Witness ==
  /\ loop_pc = "recv" /\ Len(inbox) = 2 /\ inbox[1] # inbox[2]
  /\ ENABLED LoopTakes

\* Where the flash task stands ("none": no flash task runs), and the message
\* a step has just sent.
FlashTaskPc == IF tasks # <<>> /\ tasks[1].kind = "flash" THEN tasks[1].pc ELSE "none"
Sent(before, after) == after[Len(after)]
JustSent(before, after) ==
  Len(after) = Len(before) + 1 /\ SubSeq(after, 1, Len(before)) = before

(* C33: a flash task makes its calls in the order unmount, flash, eject.      *)
(* It calls unmount first; it calls flash() only when the unmount returned    *)
(* Ok, a failed unmount sending "Failed to unmount" and ending the task       *)
(* with no flash() and no eject; it calls eject only when flash() returned    *)
(* Ok, a failed flash sending its Error and ending the task; the eject's      *)
(* return ends the task with a Success.                                       *)
C33_UnmountFlashEject ==
  [][ (FlashTaskPc' # FlashTaskPc) =>
        CASE FlashTaskPc = "none" ->
               FlashTaskPc' = "spawned" /\ inbox' = inbox
          [] FlashTaskPc = "spawned" ->
               /\ FlashTaskPc' = "unmounting"
               /\ JustSent(inbox, inbox')
               /\ Sent(inbox, inbox') = InProgress("Unmounting", tasks[1].path)
          [] FlashTaskPc = "unmounting" ->
               /\ JustSent(inbox, inbox')
               /\ \/ /\ FlashTaskPc' = "flashing"
                     /\ Sent(inbox, inbox') = InProgress("Flashing", <<tasks[1].iso.name>>)
                  \/ /\ FlashTaskPc' = "none" /\ tasks' = <<>>
                     /\ Sent(inbox, inbox').tag = "Error"
                     /\ Sent(inbox, inbox').msg[1] = "Failed to unmount"
          [] FlashTaskPc = "flashing" ->
               /\ JustSent(inbox, inbox')
               /\ \/ /\ FlashTaskPc' = "ejecting"
                     /\ Sent(inbox, inbox') = InProgress("Ejecting device", NoText)
                  \/ /\ FlashTaskPc' = "none" /\ tasks' = <<>>
                     /\ Sent(inbox, inbox').tag = "Error"
                     /\ Sent(inbox, inbox').msg[1] = "Flash failed"
          [] FlashTaskPc = "ejecting" ->
               /\ FlashTaskPc' = "none" /\ tasks' = <<>>
               /\ JustSent(inbox, inbox')
               /\ Sent(inbox, inbox').tag = "Success" ]_vars

\* The flash task has unmounted and flashed, and waits for the eject's return.
C33_Witness ==
  /\ FlashTaskPc = "ejecting" /\ tasks[1].path = DevQ.path
  /\ state.tag \in BusyTags

(* ---- the write pipeline, continued ---- *)

(* C34: whenever flash() returns Ok, the number of bytes written to the       *)
(* device equals total_size, the content-length of the pre-flight: a stream   *)
(* that ends cleanly after fewer or more bytes yields no success.  Stated as  *)
(* the claim states it; flash() uses total_size in its progress messages      *)
(* only.                                                                      *)
C34_OkMeansTotalSizeWritten ==
  (fpc = "returned" /\ fres = Ok) => Len(DeviceBytes) = total_size

(* ---- the controller: tasks, paths and indexes ---- *)

(* C35: whenever the state is neither InProgress nor Flashing, no task        *)
(* spawned by the controller runs and the inbox is empty; so such a state,    *)
(* Idle after a dismissed Error or Success included, is changed by a key      *)
(* press only, never by the message of an operation that ended.               *)
C35_QuietUnlessBusy ==
  /\ []( (state.tag \notin BusyTags) => (tasks = <<>> /\ inbox = <<>>) )
  /\ [][ (state.tag \notin BusyTags /\ state' # state) =>
           (loop_pc = "poll" /\ inbox' = inbox) ]_vars

\* The Success of an ended operation is shown: its task is gone and nothing
\* is left in the inbox.
C35_Witness ==
  /\ state.tag = "Success" /\ loop_pc = "poll"
  /\ tasks = <<>> /\ inbox = <<>> /\ ~should_quit

\* While a Confirm state is shown, the selected device is the one whose path
\* the state carries: nothing moves the selection, refreshes the list or
\* delivers a message, and the task spawned on Enter captures that path.
ConfirmedPathIsSelected ==
  /\ []( (state.tag \in ConfirmTags) =>
           (HasSelectedDevice /\ selected_device.path = state.path) )
  /\ [][ (state.tag \in ConfirmTags /\ state'.tag \in ConfirmTags) =>
           /\ state' = state /\ inbox' = inbox
           /\ devices' = devices /\ selected_index' = selected_index ]_vars
  /\ [][ (state.tag \in ConfirmTags /\ Len(tasks') > Len(tasks)) =>
           tasks'[Len(tasks')].path = state.path ]_vars

(* C36, as stated: the path given to format, and to unmount, flash and eject  *)
(* in the flash task, is always the path carried in the Confirm state shown   *)
(* when Enter was pressed.  The flash task of a macOS build gives flash() the *)
(* raw node instead.                                                          *)
C36_CallsGetConfirmedPath ==
  /\ ConfirmedPathIsSelected
  /\ [](\A i \in 1..Len(tasks) : CallMade(tasks[i]) => tasks[i].arg = tasks[i].path)

(* C36, amended: the path given to format, and to unmount and eject in the    *)
(* flash task, is the path carried in the Confirm state shown when Enter was  *)
(* pressed; flash() is given that path on Linux and, on macOS, the raw node   *)
(* of the same disk, the carried path with "/dev/disk" replaced by            *)
(* "/dev/rdisk" (an r put before the model's prefix letter).                  *)
C36_CallsGetConfirmedPathOrRawNode ==
  /\ ConfirmedPathIsSelected
  /\ [](\A i \in 1..Len(tasks) :
          CallMade(tasks[i]) =>
            tasks[i].arg = IF tasks[i].pc = "flashing" /\ target_os = "macos"
                             THEN <<"r">> \o tasks[i].path
                             ELSE tasks[i].path)

\* A macOS build's flash task runs flash() on the raw node of the device
\* whose path was confirmed.
C36_Witness ==
  /\ target_os = "macos" /\ FlashTaskPc = "flashing"
  /\ tasks[1].path = DevQ.path /\ tasks[1].arg = <<"r", "f">>

(* C37: in every reachable state, if the state is DeviceSelected(i) then i    *)
(* is selected_index, so an operation started from that state acts on the     *)
(* device selected when DeviceSelected was entered.  Stated as the claim      *)
(* states it; Up and Down in DeviceSelected move selected_index and leave     *)
(* the state as it is.                                                        *)
C37_SelectedIndexCarried ==
  (state.tag = "DeviceSelected") => (state.idx = selected_index)

(* C38: after any refreshes, with lists that grow or shrink, and any          *)
(* navigation, whenever the device list is not empty selected_index is an     *)
(* index into it and selected_device() returns a device of the list; every    *)
(* step that changes the list leaves the index valid for the new list.        *)
C38_SelectedIndexValid ==
  /\ []( (devices # <<>>) =>
           /\ selected_index \in 0..(Len(devices) - 1)
           /\ HasSelectedDevice
           /\ \E k \in 1..Len(devices) : selected_device = devices[k] )
  /\ [][ (devices' # devices /\ devices' # <<>>) =>
           selected_index' < Len(devices') ]_vars

\* A Success has been received and the refresh after it has left a list of
\* one device, with the selection on it.
C38_Witness ==
  /\ state.tag = "Success" /\ loop_pc = "poll"
  /\ Len(devices) = 1 /\ selected_index = 0 /\ HasSelectedDevice

(* ---- the write pipeline: a failed write, the progress count ---- *)

\* A write_all on the device has failed.
WriteFailed == \E k \in 1..Len(writes) : ~writes[k].ok

(* C39: once a device write has failed in the writer thread, the writer       *)
(* issues no further write and no sync: the failed write is the last call on  *)
(* the device, the thread has ended with the write's error, and the chunks    *)
(* that were in the hand-off queue are dropped with the receiver, none of     *)
(* them reaching the device.                                                  *)
C39_NothingAfterFailedWrite ==
  /\ []( WriteFailed =>
           /\ ~writes[Len(writes)].ok
           /\ \A k \in 1..(Len(writes) - 1) : writes[k].ok
           /\ syncs = <<>>
           /\ wpc = "done" /\ wres.kind = "err" /\ file = "closed"
           /\ queue = <<>> /\ ~rx_open )
  /\ [][ WriteFailed => (writes' = writes /\ syncs' = syncs /\ queue' = <<>>) ]_vars

\* The second block's write failed while a chunk the queue had accepted was
\* still waiting: that chunk is gone and the device holds the first block only.
C39_Witness ==
  /\ Len(writes) = 2 /\ writes[1].ok /\ ~writes[2].ok
  /\ bytes_processed > written + Len(buffer)
  /\ wpc = "done" /\ queue = <<>>

\* The bytes of the chunks waiting in the hand-off queue.
RECURSIVE QueuedBytes(_)
QueuedBytes(q) == IF q = <<>> THEN 0 ELSE Len(Head(q)) + QueuedBytes(Tail(q))

====
